---- MODULE Spec2Model ----
(***************************************************************************)
(* Model of the Facebook-notification extraction core of                   *)
(* gmail-facebook-blog-automation: FacebookParser (src/src/services/       *)
(* FacebookParser.js) and the importance score of BlogGenerator            *)
(* (src/src/utils/Logger.js, second half).                                 *)
(*                                                                         *)
(* Strings are sequences of one-character strings, so the regular          *)
(* expressions of the source are modelled on characters: a literal is a    *)
(* contiguous run of characters, "." is any character but a line           *)
(* terminator, \s is a white-space character.  A JavaScript value is a     *)
(* record [t |-> type tag, v |-> payload].                                 *)
(***************************************************************************)
EXTENDS Integers, Sequences, FiniteSets, TLC

VARIABLES
    method,     \* the parser/generator method whose call completed last
    email,      \* the email record (subject, body, date) given to that call
    text,       \* the string argument of a cleanContent call
    postData,   \* the record built at FacebookParser.js:18-30, or the record scored
    ret,        \* what the call returned (or that it threw)
    previous,   \* what the call before it returned, when that call was given
                \* the same email; Undefined otherwise
    startup,    \* how far start() has come (src/src/index.js:137-156)
    auth,       \* the authenticate calls of initialize() that completed, in order
    running,    \* the number of processNewEmails runs past the guard of line 41
    invocations, \* the number of invocations of processNewEmails so far
    faulted,    \* the calls of processEmail that threw in some run so far
    isRunning,  \* FacebookBlogAutomation.isRunning (src/src/index.js:17)
    config,     \* config.blog.autoPost and config.facebook.targetUsers
    pc,         \* the operation the processNewEmails run awaits; "idle": no run
    emails,     \* the notifications the run fetched, as places in the mailbox
    current,    \* the place in emails of the email processEmail works on
    parsed,     \* postData of processEmail: what extractPostData returned
    processed,  \* the emails marked as processed in the mailbox
    log,        \* the calls of this run that completed, in order
    invocation, \* what the last invocation of processNewEmails did
    completion, \* what the AI request of the last generatePost yielded
    blogPost,   \* blogPost of processEmail: what generatePost returned
    credentials, \* apiKey, apiSecret, username, blogId of the HatenaBlogService
    response,   \* what the blog server did with the request of a call of the
                \* blog service made on its own (Undefined: no request)
    requests    \* the HTTP requests that call issued

parserVars == <<method, email, text, postData, ret, previous>>
automationVars == <<startup, auth, running, invocations, faulted, isRunning, config, pc, emails, current, parsed, processed, log, invocation,
                    completion, blogPost>>
serviceVars == <<credentials, response, requests>>
vars == <<method, email, text, postData, ret, previous,
          startup, auth, running, invocations, faulted,
          isRunning, config, pc, emails, current, parsed, processed, log, invocation,
          completion, blogPost, credentials, response, requests>>

----------------------------------------------------------------------------
(* Bounds of the model.                                                    *)

\* longest string handed to cleanContent on its own
MaxTextLen == 5
\* most phrases in a subject
MaxSubjectPhrases == 2
\* most nodes in an HTML body
MaxNodes == 2
\* most lines in a plain-text body
MaxLines == 6
\* most images, and most links, in a scored record
MaxImages == 10
MaxLinks == 10
\* most nodes in a document handed to extractImages or extractLinks on its own
MaxMedia == 3
\* most notifications in a batch
MaxBatch == 2
\* most invocations of processNewEmails: the one of start() and the cron ticks
MaxInvocations == 3

----------------------------------------------------------------------------
(* JavaScript values.                                                      *)

Null == [t |-> "null", v |-> <<>>]
Undefined == [t |-> "undefined", v |-> <<>>]
Str(s) == [t |-> "string", v |-> s]
Thrown == [t |-> "throw", v |-> <<>>]
True == [t |-> "boolean", v |-> TRUE]

IsStr(x) == x.t = "string"
\* !x for the values that occur: null, undefined and "" are falsy
Falsy(x) == x.t \in {"null", "undefined"} \/ (x.t = "string" /\ x.v = <<>>)

----------------------------------------------------------------------------
(* Characters and the regular-expression building blocks.                  *)

\* \s of a JavaScript regular expression, and what String.trim removes
WhiteSpace == {" ", "\t", "\n", "\r"}
\* what "." does not match
LineTerminator == {"\n", "\r"}
Digit == {"0", "1", "2", "3", "4", "5", "6", "7", "8", "9"}

LowerOf ==
    ("A" :> "a") @@ ("B" :> "b") @@ ("C" :> "c") @@ ("D" :> "d") @@ ("E" :> "e") @@
    ("F" :> "f") @@ ("G" :> "g") @@ ("H" :> "h") @@ ("I" :> "i") @@ ("J" :> "j") @@
    ("K" :> "k") @@ ("L" :> "l") @@ ("M" :> "m") @@ ("N" :> "n") @@ ("O" :> "o") @@
    ("P" :> "p") @@ ("Q" :> "q") @@ ("R" :> "r") @@ ("S" :> "s") @@ ("T" :> "t") @@
    ("U" :> "u") @@ ("V" :> "v") @@ ("W" :> "w") @@ ("X" :> "x") @@ ("Y" :> "y") @@
    ("Z" :> "z")

UpperCase == DOMAIN LowerOf

\* String.toLowerCase, and the /i flag: both sides are compared in lower case
toLowerCase(s) == [i \in 1..Len(s) |-> IF s[i] \in UpperCase THEN LowerOf[s[i]] ELSE s[i]]

Min(S) == CHOOSE x \in S : \A y \in S : x <= y
Max(S) == CHOOSE x \in S : \A y \in S : x >= y

\* the literal lit stands in s at position i
IsAt(s, i, lit) ==
    /\ i >= 1
    /\ i + Len(lit) - 1 <= Len(s)
    /\ \A j \in 1..Len(lit) : s[i + j - 1] = lit[j]

\* the positions at which lit occurs in s
Occurrences(s, lit) == {i \in 1..(Len(s) - Len(lit) + 1) : IsAt(s, i, lit)}

\* String.includes(lit), and an unanchored literal pattern
Contains(s, lit) == \E i \in 1..(Len(s) - Len(lit) + 1) : IsAt(s, i, lit)

\* s[from..to] holds no line terminator: a run that ".*" or ".+?" can take
DotRun(s, from, to) == \A j \in from..to : s[j] \notin LineTerminator

\* the length of the white-space run that starts at position i of s
RECURSIVE WsRun(_, _)
WsRun(s, i) == IF i <= Len(s) /\ s[i] \in WhiteSpace THEN 1 + WsRun(s, i + 1) ELSE 0
\* the length of the white-space run that ends at position i of s
RECURSIVE WsRunBack(_, _)
WsRunBack(s, i) == IF i >= 1 /\ s[i] \in WhiteSpace THEN 1 + WsRunBack(s, i - 1) ELSE 0

\* String.prototype.trim: s without its leading and its trailing white space
trim(s) ==
    LET lead == WsRun(s, 1)
    IN  IF lead = Len(s) THEN <<>>
        ELSE SubSeq(s, lead + 1, Len(s) - WsRunBack(s, Len(s)))

\* String.split('\n')
RECURSIVE split(_)
split(s) ==
    LET nl == {i \in 1..Len(s) : s[i] = "\n"}
    IN  IF nl = {} THEN <<s>>
        ELSE <<SubSeq(s, 1, Min(nl) - 1)>> \o split(SubSeq(s, Min(nl) + 1, Len(s)))

RECURSIVE JoinLines(_)
\* lines.join('\n')
JoinLines(ls) ==
    IF ls = <<>> THEN <<>>
    ELSE IF Len(ls) = 1 THEN ls[1]
    ELSE ls[1] \o <<"\n">> \o JoinLines(Tail(ls))

\* Array.filter
RECURSIVE NonBlank(_)
NonBlank(ls) ==
    IF ls = <<>> THEN <<>>
    ELSE IF Len(trim(Head(ls))) > 0 THEN <<Head(ls)>> \o NonBlank(Tail(ls))
    ELSE NonBlank(Tail(ls))

----------------------------------------------------------------------------
(* FacebookParser.cleanContent                                             *)

\* the length of the run without white space that starts at position i of s
RECURSIVE WordRun(_, _)
WordRun(s, i) == IF i <= Len(s) /\ s[i] \notin WhiteSpace THEN 1 + WordRun(s, i + 1) ELSE 0

\* a plausible slip: /\s\s/g, a pair of white-space characters at a time
RECURSIVE CollapsePairs(_)
CollapsePairs(s) ==
    IF s = <<>> THEN <<>>
    ELSE IF Len(s) >= 2 /\ s[1] \in WhiteSpace /\ s[2] \in WhiteSpace
         THEN <<" ">> \o CollapsePairs(SubSeq(s, 3, Len(s)))
    ELSE IF Head(s) \in WhiteSpace
         THEN <<Head(s)>> \o CollapsePairs(Tail(s))
    ELSE SubSeq(s, 1, WordRun(s, 1)) \o CollapsePairs(SubSeq(s, 1 + WordRun(s, 1), Len(s)))

\* .replace(/\s+/g, ' '): every maximal white-space run becomes one space,
\* and what stands between two runs stays
RECURSIVE CollapseWhitespace(_)
CollapseWhitespace(s) ==
    IF s = <<>> THEN <<>>
    ELSE IF Head(s) \in WhiteSpace
         THEN <<" ">> \o CollapseWhitespace(SubSeq(s, 1 + WsRun(s, 1), Len(s)))
    ELSE SubSeq(s, 1, WordRun(s, 1)) \o CollapseWhitespace(SubSeq(s, 1 + WordRun(s, 1), Len(s)))

\* .replace(/\n\s*\n/g, '\n'): from a newline, the greedy \s* reaches the last
\* newline of the white-space run that follows, and the whole span becomes
\* "\n"; what stands before the first newline stays
RECURSIVE CollapseBlankLines(_)
CollapseBlankLines(s) ==
    LET nl == {i \in 1..Len(s) : s[i] = "\n"}
    IN  IF nl = {} THEN s
        ELSE LET at == Min(nl)
                 run == WsRun(s, at + 1)
                 ends == {j \in (at + 1)..(at + run) : s[j] = "\n"}
                 next == IF ends # {} THEN Max(ends) + 1 ELSE at + 1
             IN  SubSeq(s, 1, at) \o CollapseBlankLines(SubSeq(s, next, Len(s)))

cleanContent(content) == trim(CollapseBlankLines(CollapseWhitespace(content)))

----------------------------------------------------------------------------
(* The parsed document ($ of cheerio.load): the nodes of the body in       *)
(* document order.  A node is a text node or an element without element    *)
(* children; url is the src of an img and the href of an a.                *)

TextNode(t) ==
    [tag |-> "#text", testid |-> "", class |-> "", text |-> t, url |-> Undefined, alt |-> Undefined]
Elem(tag, testid, class, t) ==
    [tag |-> tag, testid |-> testid, class |-> class, text |-> t, url |-> Undefined, alt |-> Undefined]
Img(src, alt) ==
    [tag |-> "img", testid |-> "", class |-> "", text |-> <<>>, url |-> src, alt |-> alt]
Anchor(href, t) ==
    [tag |-> "a", testid |-> "", class |-> "", text |-> t, url |-> href, alt |-> Undefined]

\* $.text(): the text of every node, in document order
RECURSIVE DocText(_)
DocText(doc) == IF doc = <<>> THEN <<>> ELSE Head(doc).text \o DocText(Tail(doc))

----------------------------------------------------------------------------
(* FacebookParser.extractPostType                                          *)

\* a plausible slip: the ".*" between the two literals left out
AltMatchesAdjacent(s, alt) ==
    \E i \in Occurrences(s, alt[1]) :
        \/ Len(alt) = 1
        \/ IsAt(s, i + Len(alt[1]), alt[2])

\* A pattern is a set of alternatives; an alternative is <<lit>> or
\* <<lit1, lit2>>, the latter "lit1.*lit2".
AltMatches(s, alt) ==
    \E i \in Occurrences(s, alt[1]) :
        \/ Len(alt) = 1
        \/ LET second == Occurrences(s, alt[2])
           IN  \E j \in second :
                  /\ j >= i + Len(alt[1])
                  /\ DotRun(s, i + Len(alt[1]), j - 1)

\* pattern.test(subject) for a pattern with the /i flag
TestI(pattern, s) == LET low == toLowerCase(s) IN \E alt \in pattern : AltMatches(low, alt)

\* a plausible slip: the video entry declared before the shared entry
typePatternsVideoFirst ==
    << [type |-> "photo",  pattern |-> {<<(*[added a new photo]*) <<"a","d","d","e","d"," ","a"," ","n","e","w"," ","p","h","o","t","o">>>>, <<(*[posted a photo]*) <<"p","o","s","t","e","d"," ","a"," ","p","h","o","t","o">>>>, <<(*[shared ]*) <<"s","h","a","r","e","d"," ">>, (*[photo]*) <<"p","h","o","t","o">>>>}],
       [type |-> "status", pattern |-> {<<(*[updated their status]*) <<"u","p","d","a","t","e","d"," ","t","h","e","i","r"," ","s","t","a","t","u","s">>>>, <<(*[wrote on their timeline]*) <<"w","r","o","t","e"," ","o","n"," ","t","h","e","i","r"," ","t","i","m","e","l","i","n","e">>>>}],
       [type |-> "video",  pattern |-> {<<(*[posted a video]*) <<"p","o","s","t","e","d"," ","a"," ","v","i","d","e","o">>>>, <<(*[shared a video]*) <<"s","h","a","r","e","d"," ","a"," ","v","i","d","e","o">>>>}],
       [type |-> "shared", pattern |-> {<<(*[shared a post]*) <<"s","h","a","r","e","d"," ","a"," ","p","o","s","t">>>>, <<(*[shared ]*) <<"s","h","a","r","e","d"," ">>, (*[link]*) <<"l","i","n","k">>>>, <<(*[shared a video]*) <<"s","h","a","r","e","d"," ","a"," ","v","i","d","e","o">>>>}],
       [type |-> "link",   pattern |-> {<<(*[shared a link]*) <<"s","h","a","r","e","d"," ","a"," ","l","i","n","k">>>>, <<(*[posted a link]*) <<"p","o","s","t","e","d"," ","a"," ","l","i","n","k">>>>}],
       [type |-> "group",  pattern |-> {<<(*[posted in ]*) <<"p","o","s","t","e","d"," ","i","n"," ">>, (*[group]*) <<"g","r","o","u","p">>>>}],
       [type |-> "page",   pattern |-> {<<(*[posted on ]*) <<"p","o","s","t","e","d"," ","o","n"," ">>, (*[page]*) <<"p","a","g","e">>>>}] >>

\* the entries of typePatterns, in the order Object.entries yields them
\* (insertion order: no key is an integer index)
typePatterns ==
    << [type |-> "photo",  pattern |-> {<<(*[added a new photo]*) <<"a","d","d","e","d"," ","a"," ","n","e","w"," ","p","h","o","t","o">>>>, <<(*[posted a photo]*) <<"p","o","s","t","e","d"," ","a"," ","p","h","o","t","o">>>>, <<(*[shared ]*) <<"s","h","a","r","e","d"," ">>, (*[photo]*) <<"p","h","o","t","o">>>>}],
       [type |-> "status", pattern |-> {<<(*[updated their status]*) <<"u","p","d","a","t","e","d"," ","t","h","e","i","r"," ","s","t","a","t","u","s">>>>, <<(*[wrote on their timeline]*) <<"w","r","o","t","e"," ","o","n"," ","t","h","e","i","r"," ","t","i","m","e","l","i","n","e">>>>}],
       [type |-> "shared", pattern |-> {<<(*[shared a post]*) <<"s","h","a","r","e","d"," ","a"," ","p","o","s","t">>>>, <<(*[shared ]*) <<"s","h","a","r","e","d"," ">>, (*[link]*) <<"l","i","n","k">>>>, <<(*[shared a video]*) <<"s","h","a","r","e","d"," ","a"," ","v","i","d","e","o">>>>}],
       [type |-> "video",  pattern |-> {<<(*[posted a video]*) <<"p","o","s","t","e","d"," ","a"," ","v","i","d","e","o">>>>, <<(*[shared a video]*) <<"s","h","a","r","e","d"," ","a"," ","v","i","d","e","o">>>>}],
       [type |-> "link",   pattern |-> {<<(*[shared a link]*) <<"s","h","a","r","e","d"," ","a"," ","l","i","n","k">>>>, <<(*[posted a link]*) <<"p","o","s","t","e","d"," ","a"," ","l","i","n","k">>>>}],
       [type |-> "group",  pattern |-> {<<(*[posted in ]*) <<"p","o","s","t","e","d"," ","i","n"," ">>, (*[group]*) <<"g","r","o","u","p">>>>}],
       [type |-> "page",   pattern |-> {<<(*[posted on ]*) <<"p","o","s","t","e","d"," ","o","n"," ">>, (*[page]*) <<"p","a","g","e">>>>}] >>

\* String(x), the coercion RegExp.test applies to its argument
StringOf(x) ==
    CASE x.t = "string" -> x.v
      [] x.t = "null" -> (*[null]*) <<"n","u","l","l">>
      [] OTHER -> (*[undefined]*) <<"u","n","d","e","f","i","n","e","d">>

\* a plausible slip: no default, the loop's fall-through returns nothing
RECURSIVE typeLoopNoDefault(_, _)
typeLoopNoDefault(s, k) ==
    IF k > Len(typePatterns) THEN "undefined"
    ELSE IF TestI(typePatterns[k].pattern, s) THEN typePatterns[k].type
    ELSE typeLoopNoDefault(s, k + 1)

\* for (const [type, pattern] of Object.entries(typePatterns)), from entry k on
RECURSIVE typeLoop(_, _)
typeLoop(s, k) ==
    IF k > Len(typePatterns) THEN "post"
    ELSE IF TestI(typePatterns[k].pattern, s) THEN typePatterns[k].type
    ELSE typeLoop(s, k + 1)

extractPostType(subject) == typeLoop(StringOf(subject), 1)

----------------------------------------------------------------------------
(* FacebookParser.extractAuthor                                            *)

\* the anchors tried in another order: a plausible slip
authorPatternsReordered ==
    << (*[ shared a post]*) <<" ","s","h","a","r","e","d"," ","a"," ","p","o","s","t">>, (*[ posted in]*) <<" ","p","o","s","t","e","d"," ","i","n">>, (*[ added a new photo]*) <<" ","a","d","d","e","d"," ","a"," ","n","e","w"," ","p","h","o","t","o">>,
       (*[ updated their status]*) <<" ","u","p","d","a","t","e","d"," ","t","h","e","i","r"," ","s","t","a","t","u","s">>, (*[ wrote a new post]*) <<" ","w","r","o","t","e"," ","a"," ","n","e","w"," ","p","o","s","t">> >>

\* the literals that follow (.+?) in the five subject patterns, in list order
authorPatterns ==
    << (*[ posted in]*) <<" ","p","o","s","t","e","d"," ","i","n">>, (*[ shared a post]*) <<" ","s","h","a","r","e","d"," ","a"," ","p","o","s","t">>, (*[ added a new photo]*) <<" ","a","d","d","e","d"," ","a"," ","n","e","w"," ","p","h","o","t","o">>,
       (*[ updated their status]*) <<" ","u","p","d","a","t","e","d"," ","t","h","e","i","r"," ","s","t","a","t","u","s">>, (*[ wrote a new post]*) <<" ","w","r","o","t","e"," ","a"," ","n","e","w"," ","p","o","s","t">> >>

\* subject.match(/(.+?)lit/): the starts from which a non-empty run without a
\* line terminator reaches an occurrence of lit
LazyStarts(s, lit) ==
    LET at == Occurrences(s, lit)
    IN  {i \in 1..Len(s) : \E k \in at : k > i /\ DotRun(s, i, k - 1)}

\* match[1]: from the leftmost start, the shortest run that reaches lit
LazyCapture(s, lit) ==
    LET i == Min(LazyStarts(s, lit))
        k == Min({k \in Occurrences(s, lit) : k > i /\ DotRun(s, i, k - 1)})
    IN  SubSeq(s, i, k - 1)

IsAuthorElement(n) == n.testid = "post_author" \/ n.class \in {"author", "post-author"}

authorPhrases == {(*[posted by]*) <<"p","o","s","t","e","d"," ","b","y">>, (*[from]*) <<"f","r","o","m">>, (*[by]*) <<"b","y">>}

\* /(?:Posted by|From|By)\s+([^\n\r]+)/i at position i of t: where the capture
\* starts (0: no match at i).  \s+ is greedy and gives characters back until
\* the capture can start on a character that is no line terminator.
PhraseCaptureStart(t, i) ==
    LET low == toLowerCase(t)
        lits == {lit \in authorPhrases : IsAt(low, i, lit)}
    IN  IF lits = {} THEN 0
        ELSE LET p == i + Len(CHOOSE lit \in lits : TRUE)
                 ok == {w \in 1..WsRun(t, p) : p + w <= Len(t) /\ t[p + w] \notin LineTerminator}
             IN  IF ok = {} THEN 0 ELSE p + Max(ok)

\* match[1] of the phrase pattern: from the capture start to the end of the line
PhraseCapture(t, from) ==
    LET stops == {j \in from..Len(t) : t[j] \in LineTerminator}
    IN  SubSeq(t, from, IF stops = {} THEN Len(t) ELSE Min(stops) - 1)

\* the document stages of extractAuthor (lines 64-78)
authorFromDocument(doc) ==
    LET authorElements == SelectSeq(doc, IsAuthorElement)
        textContent == DocText(doc)
        at == {i \in 1..Len(textContent) : PhraseCaptureStart(textContent, i) > 0}
    IN  IF Len(authorElements) > 0 THEN Str(trim(authorElements[1].text))
        ELSE IF at # {}
             THEN Str(trim(PhraseCapture(textContent, PhraseCaptureStart(textContent, Min(at)))))
        ELSE Null

\* a plausible slip: a capture that trims to the empty string is taken for
\* no match, and the document is asked
RECURSIVE authorLoopFallsThrough(_, _, _)
authorLoopFallsThrough(s, doc, k) ==
    IF k > Len(authorPatterns) THEN authorFromDocument(doc)
    ELSE IF LazyStarts(s, authorPatterns[k]) # {}
         THEN IF trim(LazyCapture(s, authorPatterns[k])) # <<>>
              THEN Str(trim(LazyCapture(s, authorPatterns[k])))
              ELSE authorFromDocument(doc)
    ELSE authorLoopFallsThrough(s, doc, k + 1)

\* for (const pattern of patterns), from pattern k on, then lines 64-78
RECURSIVE authorLoop(_, _, _)
authorLoop(s, doc, k) ==
    IF k > Len(authorPatterns) THEN authorFromDocument(doc)
    ELSE IF LazyStarts(s, authorPatterns[k]) # {}
         THEN Str(trim(LazyCapture(s, authorPatterns[k])))
    ELSE authorLoop(s, doc, k + 1)

\* subject.match on a value that is no string is a TypeError
extractAuthor(subject, doc) ==
    IF ~IsStr(subject) THEN Thrown ELSE authorLoop(subject.v, doc, 1)

----------------------------------------------------------------------------
(* FacebookParser.isPostContent, isSystemMessage                           *)

\* /^(lit|lit|...)/i
StartsWithAny(s, lits) == LET low == toLowerCase(s) IN \E lit \in lits : IsAt(low, 1, lit)

\* the alternatives of /^(To help keep|...|Terms)/i, in lower case
systemPrefixes ==
    {(*[to help keep]*) <<"t","o"," ","h","e","l","p"," ","k","e","e","p">>, (*[you're receiving]*) <<"y","o","u","'","r","e"," ","r","e","c","e","i","v","i","n","g">>, (*[this message was sent]*) <<"t","h","i","s"," ","m","e","s","s","a","g","e"," ","w","a","s"," ","s","e","n","t">>, (*[facebook]*) <<"f","a","c","e","b","o","o","k">>, (*[copyright]*) <<"c","o","p","y","r","i","g","h","t">>, (*[privacy]*) <<"p","r","i","v","a","c","y">>, (*[terms]*) <<"t","e","r","m","s">>}
\* the alternatives of /^(View|...|Unsubscribe)/i, in lower case
actionPrefixes ==
    {(*[view]*) <<"v","i","e","w">>, (*[reply]*) <<"r","e","p","l","y">>, (*[like]*) <<"l","i","k","e">>, (*[comment]*) <<"c","o","m","m","e","n","t">>, (*[share]*) <<"s","h","a","r","e">>, (*[unsubscribe]*) <<"u","n","s","u","b","s","c","r","i","b","e">>}
\* the alternatives of /^(http|www\.)/i
urlPrefixes == {(*[http]*) <<"h","t","t","p">>, (*[www.]*) <<"w","w","w",".">>}
\* the patterns of isSystemMessage, in lower case
systemPhrases ==
    {(*[facebook.com]*) <<"f","a","c","e","b","o","o","k",".","c","o","m">>, (*[unsubscribe]*) <<"u","n","s","u","b","s","c","r","i","b","e">>, (*[privacy policy]*) <<"p","r","i","v","a","c","y"," ","p","o","l","i","c","y">>, (*[terms of service]*) <<"t","e","r","m","s"," ","o","f"," ","s","e","r","v","i","c","e">>, (*[help center]*) <<"h","e","l","p"," ","c","e","n","t","e","r">>, (*[view on facebook]*) <<"v","i","e","w"," ","o","n"," ","f","a","c","e","b","o","o","k">>}

isPostContent(s) ==
    ~ \/ StartsWithAny(s, systemPrefixes)
      \/ StartsWithAny(s, actionPrefixes)
      \/ StartsWithAny(s, urlPrefixes)
      \* /^[0-9\s\-:]+$/
      \/ (Len(s) >= 1 /\ \A i \in 1..Len(s) : s[i] \in Digit \cup WhiteSpace \cup {"-", ":"})
      \* /^.{0,5}$/
      \/ (Len(s) <= 5 /\ DotRun(s, 1, Len(s)))

isSystemMessage(s) ==
    LET low == toLowerCase(s)
    IN  \E lit \in systemPhrases :
        Contains(low, lit)

----------------------------------------------------------------------------
(* FacebookParser.extractContent                                           *)

selectors ==
    << [kind |-> "testid", name |-> "post_message"],
       [kind |-> "class", name |-> "post-content"],
       [kind |-> "class", name |-> "message"],
       [kind |-> "class", name |-> "post-text"],
       [kind |-> "class", name |-> "userContent"],
       [kind |-> "contains", name |-> "p"],
       [kind |-> "contains", name |-> "div"] >>

\* node n is selected by sel; :contains("wrote:") is a case-sensitive search
Selects(sel, n) ==
    CASE sel.kind = "testid" -> n.testid = sel.name
      [] sel.kind = "class" -> n.class = sel.name
      [] OTHER -> n.tag = sel.name /\ Contains(n.text, (*[wrote:]*) <<"w","r","o","t","e",":">>)

\* content.replace(/^.+?lit\s*/i, ''): lit after a non-empty run of the first
\* line, removed together with that run and the white space that follows
StripPrefix(s, lit) ==
    LET at == {k \in Occurrences(toLowerCase(s), lit) : k >= 2 /\ DotRun(s, 1, k - 1)}
        after == Min(at) + Len(lit)
    IN  IF at = {} THEN s ELSE SubSeq(s, after + WsRun(s, after), Len(s))

\* lines 96-101: the text of the first selected node, trimmed, prefixes removed
SelectorContent(elements) ==
    StripPrefix(StripPrefix(StripPrefix(trim(elements[1].text), (*[wrote:]*) <<"w","r","o","t","e",":">>), (*[said:]*) <<"s","a","i","d",":">>), (*[posted:]*) <<"p","o","s","t","e","d",":">>)

\* a plausible slip: the isSystemMessage test left out of the inner loop
RECURSIVE absorbNoSystemTest(_, _, _)
absorbNoSystemTest(lines, j, last) ==
    IF j > last THEN <<>>
    ELSE LET nextLine == trim(lines[j])
         IN  IF isPostContent(nextLine)
             THEN <<"\n">> \o nextLine \o absorbNoSystemTest(lines, j + 1, last)
             ELSE <<>>

\* lines 122-129: the lines j..last are appended while they pass both tests
RECURSIVE absorb(_, _, _)
absorb(lines, j, last) ==
    IF j > last THEN <<>>
    ELSE LET nextLine == trim(lines[j])
         IN  IF isPostContent(nextLine) /\ ~isSystemMessage(nextLine)
             THEN <<"\n">> \o nextLine \o absorb(lines, j + 1, last)
             ELSE <<>>

\* a plausible slip: the scan gives up at the first start line whose
\* concatenation is too short
RECURSIVE lineLoopStopsAtFirst(_, _)
lineLoopStopsAtFirst(lines, i) ==
    IF i > Len(lines) THEN Null
    ELSE LET line == trim(lines[i])
             last == IF i + 4 < Len(lines) THEN i + 4 ELSE Len(lines)
             content == line \o absorb(lines, i + 1, last)
         IN  IF isPostContent(line)
             THEN IF Len(content) > 20 THEN Str(cleanContent(content)) ELSE Null
             ELSE lineLoopStopsAtFirst(lines, i + 1)

\* a plausible slip: the minimum-length test left out of the line scan
RECURSIVE lineLoopNoMinimum(_, _)
lineLoopNoMinimum(lines, i) ==
    IF i > Len(lines) THEN Null
    ELSE LET line == trim(lines[i])
             last == IF i + 4 < Len(lines) THEN i + 4 ELSE Len(lines)
             content == line \o absorb(lines, i + 1, last)
         IN  IF isPostContent(line)
             THEN Str(cleanContent(content))
             ELSE lineLoopNoMinimum(lines, i + 1)

\* lines 114-135: the scan for a start line, from line i on (i counts from 1;
\* the inner loop's bound min(i + 5, lines.length) is line min(i + 4, n) here)
RECURSIVE lineLoop(_, _)
lineLoop(lines, i) ==
    IF i > Len(lines) THEN Null
    ELSE LET line == trim(lines[i])
             last == IF i + 4 < Len(lines) THEN i + 4 ELSE Len(lines)
             content == line \o absorb(lines, i + 1, last)
         IN  IF isPostContent(line) /\ Len(content) > 20
             THEN Str(cleanContent(content))
             ELSE lineLoop(lines, i + 1)

\* lines 109-138
fallbackContent(doc) == lineLoop(NonBlank(split(DocText(doc))), 1)

\* a plausible slip: the accepted text returned as it is, not sanitized
RECURSIVE selectorLoopUnsanitized(_, _)
selectorLoopUnsanitized(doc, k) ==
    IF k > Len(selectors) THEN fallbackContent(doc)
    ELSE LET elements == SelectSeq(doc, LAMBDA n : Selects(selectors[k], n))
         IN  IF Len(elements) > 0 /\ Len(SelectorContent(elements)) > 10
             THEN Str(SelectorContent(elements))
             ELSE selectorLoopUnsanitized(doc, k + 1)

\* a plausible slip: the minimum-length test left out of the selector loop
RECURSIVE selectorLoopNoMinimum(_, _)
selectorLoopNoMinimum(doc, k) ==
    IF k > Len(selectors) THEN fallbackContent(doc)
    ELSE LET elements == SelectSeq(doc, LAMBDA n : Selects(selectors[k], n))
         IN  IF Len(elements) > 0
             THEN Str(cleanContent(SelectorContent(elements)))
             ELSE selectorLoopNoMinimum(doc, k + 1)

\* lines 93-107, from selector k on
RECURSIVE selectorLoop(_, _)
selectorLoop(doc, k) ==
    IF k > Len(selectors) THEN fallbackContent(doc)
    ELSE LET elements == SelectSeq(doc, LAMBDA n : Selects(selectors[k], n))
         IN  IF Len(elements) > 0 /\ Len(SelectorContent(elements)) > 10
             THEN Str(cleanContent(SelectorContent(elements)))
             ELSE selectorLoop(doc, k + 1)

extractContent(doc) == selectorLoop(doc, 1)

----------------------------------------------------------------------------
(* FacebookParser.parseDate, extractImages, extractLinks                   *)

InvalidDate == <<>>

\* new Date(dateString): the instant a raw timestamp denotes, as its ISO-8601
\* form; anything that is no date gives an Invalid Date
NewDate(dateString) ==
    CASE dateString = Str((*[Mon, 15 Jan 2024 10:30:00 +0000]*) <<"M","o","n",","," ","1","5"," ","J","a","n"," ","2","0","2","4"," ","1","0",":","3","0",":","0","0"," ","+","0","0","0","0">>) -> (*[2024-01-15T10:30:00.000Z]*) <<"2","0","2","4","-","0","1","-","1","5","T","1","0",":","3","0",":","0","0",".","0","0","0","Z">>
      [] dateString = Str((*[2024-01-15T10:30:00.000Z]*) <<"2","0","2","4","-","0","1","-","1","5","T","1","0",":","3","0",":","0","0",".","0","0","0","Z">>) -> (*[2024-01-15T10:30:00.000Z]*) <<"2","0","2","4","-","0","1","-","1","5","T","1","0",":","3","0",":","0","0",".","0","0","0","Z">>
      [] OTHER -> InvalidDate

\* a plausible slip: toString for toISOString, which does not throw and names
\* an Invalid Date as such
parseDateToString(dateString, now) ==
    IF NewDate(dateString) # InvalidDate THEN Str(NewDate(dateString)) ELSE Str((*[Invalid Date]*) <<"I","n","v","a","l","i","d"," ","D","a","t","e">>)

\* a plausible slip: the time of the call, whatever the raw timestamp
parseDateOfCall(dateString, now) == Str(now)

\* toISOString of an Invalid Date throws a RangeError, caught at line 198
parseDate(dateString, now) ==
    IF NewDate(dateString) # InvalidDate THEN Str(NewDate(dateString)) ELSE Str(now)

\* a plausible slip: only the first marker is looked for
IsKeptImageFirstMarker(n) ==
    /\ n.tag = "img"
    /\ ~Falsy(n.url)
    /\ ~Contains(n.url.v, (*[facebook.com/tr/]*) <<"f","a","c","e","b","o","o","k",".","c","o","m","/","t","r","/">>)

\* the img nodes with a source that holds no tracking-pixel marker (line 211)
IsKeptImage(n) ==
    /\ n.tag = "img"
    /\ ~Falsy(n.url)
    /\ ~Contains(n.url.v, (*[facebook.com/tr/]*) <<"f","a","c","e","b","o","o","k",".","c","o","m","/","t","r","/">>)
    /\ ~Contains(n.url.v, (*[pixel]*) <<"p","i","x","e","l">>)

\* lines 207-217: an item for each kept img node, in document order
extractImages(doc) ==
    LET kept == SelectSeq(doc, IsKeptImage)
    IN  [k \in 1..Len(kept) |->
            [url |-> kept[k].url.v, alt |-> IF Falsy(kept[k].alt) THEN <<>> ELSE kept[k].alt.v]]

\* the a nodes with a target that holds no help-center and no unsubscribe
\* marker (line 229)
IsKeptLink(n) ==
    /\ n.tag = "a"
    /\ ~Falsy(n.url)
    /\ ~Contains(n.url.v, (*[facebook.com/help]*) <<"f","a","c","e","b","o","o","k",".","c","o","m","/","h","e","l","p">>)
    /\ ~Contains(n.url.v, (*[unsubscribe]*) <<"u","n","s","u","b","s","c","r","i","b","e">>)

\* a plausible slip: a link is collected once, however often it occurs
RECURSIVE Distinct(_)
Distinct(q) ==
    IF q = <<>> THEN <<>>
    ELSE LET rest == Distinct(SubSeq(q, 1, Len(q) - 1))
         IN  IF \E k \in 1..Len(rest) : rest[k] = q[Len(q)] THEN rest ELSE Append(rest, q[Len(q)])
extractLinksOnce(doc) ==
    LET kept == SelectSeq(doc, IsKeptLink)
    IN  Distinct([k \in 1..Len(kept) |-> [url |-> kept[k].url.v, text |-> trim(kept[k].text)]])

\* lines 225-235: an item for each kept a node, in document order
extractLinks(doc) ==
    LET kept == SelectSeq(doc, IsKeptLink)
    IN  [k \in 1..Len(kept) |-> [url |-> kept[k].url.v, text |-> trim(kept[k].text)]]

----------------------------------------------------------------------------
(* FacebookParser.extractPostData                                          *)

\* a plausible slip: only the author is required of a record
extractPostDataAuthorOnly(e, now, loadThrows) ==
    IF ~IsStr(e.body) /\ loadThrows THEN [postData |-> Null, ret |-> Null]
    ELSE LET doc == IF IsStr(e.body) THEN e.body.v ELSE <<>>
             author == extractAuthor(e.subject, doc)
             built == [t |-> "object",
                       author |-> author,
                       content |-> extractContent(doc),
                       postType |-> extractPostType(e.subject),
                       date |-> parseDate(e.date, now),
                       images |-> extractImages(doc),
                       links |-> extractLinks(doc),
                       originalEmail |-> [subject |-> e.subject, from |-> e.from, date |-> e.date]]
         IN  IF author = Thrown THEN [postData |-> Null, ret |-> Null]
             ELSE IF Falsy(built.author) THEN [postData |-> built, ret |-> Null]
             ELSE [postData |-> built, ret |-> built]

\* a plausible slip: no try/catch around the stages
extractPostDataNoCatch(e, now, loadThrows) ==
    IF ~IsStr(e.body) /\ loadThrows THEN [postData |-> Null, ret |-> Thrown]
    ELSE LET doc == IF IsStr(e.body) THEN e.body.v ELSE <<>>
             author == extractAuthor(e.subject, doc)
             built == [t |-> "object",
                       author |-> author,
                       content |-> extractContent(doc),
                       postType |-> extractPostType(e.subject),
                       date |-> parseDate(e.date, now),
                       images |-> extractImages(doc),
                       links |-> extractLinks(doc),
                       originalEmail |-> [subject |-> e.subject, from |-> e.from, date |-> e.date]]
         IN  IF author = Thrown THEN [postData |-> Null, ret |-> Thrown]
             ELSE IF Falsy(built.author) \/ Falsy(built.content)
                  THEN [postData |-> built, ret |-> Null]
             ELSE [postData |-> built, ret |-> built]

\* The body of an email is given by its parse: [t |-> "string", v |-> nodes].
\* cheerio.load of a body that is no string either throws or yields an empty
\* document, by the library's version: loadThrows says which.  A throw inside
\* the try block is caught at line 41 and null is returned.  The result is
\* the object built at lines 18-30 (null if a stage threw first) and the
\* value returned.
extractPostData(e, now, loadThrows) ==
    IF ~IsStr(e.body) /\ loadThrows THEN [postData |-> Null, ret |-> Null]
    ELSE LET doc == IF IsStr(e.body) THEN e.body.v ELSE <<>>
             author == extractAuthor(e.subject, doc)
             built == [t |-> "object",
                       author |-> author,
                       content |-> extractContent(doc),
                       postType |-> extractPostType(e.subject),
                       date |-> parseDate(e.date, now),
                       images |-> extractImages(doc),
                       links |-> extractLinks(doc),
                       originalEmail |-> [subject |-> e.subject, from |-> e.from, date |-> e.date]]
         IN  IF author = Thrown THEN [postData |-> Null, ret |-> Null]
             ELSE IF Falsy(built.author) \/ Falsy(built.content)
                  THEN [postData |-> built, ret |-> Null]
             ELSE [postData |-> built, ret |-> built]

----------------------------------------------------------------------------
(* The importance scores.  A score is held in half points (twice the       *)
(* JavaScript number), since a link weighs 0.5.                            *)

\* typeScores[postType] || 1, in half points
typeScore(postType) ==
    CASE postType = "photo" -> 4
      [] postType = "video" -> 6
      [] postType = "shared" -> 2
      [] postType = "link" -> 2
      [] postType = "status" -> 2
      [] postType = "group" -> 4
      [] postType = "post" -> 2
      [] OTHER -> 2

\* a plausible slip: the sum returned without Math.min
BlogGenerator_calculateImportanceNoClamp(pd) ==
    (IF Len(pd.content.v) > 100 THEN 2 ELSE 0)
    + (IF Len(pd.content.v) > 300 THEN 4 ELSE 0)
    + (IF Len(pd.content.v) > 500 THEN 6 ELSE 0)
    + typeScore(pd.postType)
    + 2 * Len(pd.images)
    + Len(pd.links)

\* a plausible slip: the length tests chained with else, so that only the
\* first one that holds counts
BlogGenerator_calculateImportanceElseIf(pd) ==
    LET score ==
            (IF Len(pd.content.v) > 100 THEN 2
             ELSE IF Len(pd.content.v) > 300 THEN 4
             ELSE IF Len(pd.content.v) > 500 THEN 6 ELSE 0)
            + typeScore(pd.postType)
            + 2 * Len(pd.images)
            + Len(pd.links)
    IN  IF score < 20 THEN score ELSE 20

\* BlogGenerator.calculateImportance (src/src/utils/Logger.js:312-337)
BlogGenerator_calculateImportance(pd) ==
    LET score ==
            (IF Len(pd.content.v) > 100 THEN 2 ELSE 0)
            + (IF Len(pd.content.v) > 300 THEN 4 ELSE 0)
            + (IF Len(pd.content.v) > 500 THEN 6 ELSE 0)
            + typeScore(pd.postType)
            + 2 * Len(pd.images)
            + Len(pd.links)
    IN  IF score < 20 THEN score ELSE 20

\* FacebookParser.calculateImportance (FacebookParser.js:241-259)
FacebookParser_calculateImportance(pd) ==
    (IF Len(pd.content.v) > 100 THEN 4 ELSE 0)
    + (IF Len(pd.content.v) > 300 THEN 6 ELSE 0)
    + (IF pd.postType \in {"photo", "video"} THEN 4 ELSE 0)
    + (IF pd.postType = "shared" THEN 2 ELSE 0)
    + (IF Len(pd.images) > 0 THEN 4 ELSE 0)
    + (IF Len(pd.links) > 0 THEN 2 ELSE 0)


----------------------------------------------------------------------------
(* HatenaBlogService (src/src/services/HatenaBlogService.js).  A call      *)
(* yields what it returns (or that it throws) and the HTTP requests it     *)
(* issued.  What the server does with a request is [status, data]; status  *)
(* 0 stands for a request that got no response.                            *)

\* axios(config) (line 131): the promise is fulfilled for a status of 2xx
\* and rejected for any other status and for a request without response
axios(served) == IF served.status >= 200 /\ served.status < 300 THEN served ELSE Thrown

\* String.match of parseEntryResponse: the first capture of the pattern
\* lit + ([^stop]+) + after in data, or null
RECURSIVE RunUpTo(_, _, _)
RunUpTo(s, i, stop) ==
    IF i > Len(s) THEN <<>>
    ELSE IF s[i] = stop THEN <<>>
    ELSE <<s[i]>> \o RunUpTo(s, i + 1, stop)
Capture(data, lit, stop, after) ==
    LET at == {i \in Occurrences(data, lit) :
                   LET run == RunUpTo(data, i + Len(lit), stop)
                   IN  run # <<>> /\ IsAt(data, i + Len(lit) + Len(run), after)}
    IN  IF at = {} THEN Null ELSE Str(RunUpTo(data, Min(at) + Len(lit), stop))

\* parseEntryResponse (lines 185-196)
parseEntryResponse(data) ==
    IF ~IsStr(data) THEN Thrown
    ELSE [t |-> "object",
          url |-> Capture(data.v, (*[<link rel=\'alternate\' href=\']*) <<"<","l","i","n","k"," ","r","e","l","=","\"","a","l","t","e","r","n","a","t","e","\""," ","h","r","e","f","=","\"">>, "\"", (*[\']*) <<"\"">>),
          id |-> Capture(data.v, (*[<id>]*) <<"<","i","d",">">>, "<", (*[</id>]*) <<"<","/","i","d",">">>),
          success |-> True]

\* the request of makeRequest (lines 107-132)
Request(verb, path) == [method |-> verb, path |-> path]

\* authenticate (lines 15-29)
authenticate(creds, served) ==
    IF Falsy(creds.apiKey) \/ Falsy(creds.apiSecret) \/ Falsy(creds.username) \/ Falsy(creds.blogId)
    THEN [ret |-> Thrown, requests |-> <<>>]
    ELSE [ret |-> IF axios(served) = Thrown THEN Thrown ELSE True,
          requests |-> <<Request("GET", "/entry")>>]

\* a plausible slip: any fulfilled request counts as a created entry
postEntryAnyStatus(creds, post, served) ==
    IF ~IsStr(creds.username) THEN [ret |-> Thrown, requests |-> <<>>]
    ELSE [ret |-> IF axios(served) = Thrown THEN Thrown ELSE parseEntryResponse(served.data),
          requests |-> <<Request("POST", "/entry")>>]

\* publishPost (lines 31-52) and saveDraft (lines 54-75), which differ in
\* the draft flag of the entry only: buildAtomEntry (lines 77-96) calls
\* escapeXml on the username, which throws for a username that is no
\* string, before a request is made
postEntry(creds, post, served) ==
    IF ~IsStr(creds.username) THEN [ret |-> Thrown, requests |-> <<>>]
    ELSE [ret |-> IF axios(served) = Thrown THEN Thrown
                  ELSE IF served.status = 201 THEN parseEntryResponse(served.data)
                  ELSE Thrown,
          requests |-> <<Request("POST", "/entry")>>]

publishPost(creds, post, served) == postEntry(creds, post, served)
saveDraft(creds, post, served) == postEntry(creds, post, served)

----------------------------------------------------------------------------
(* BlogGenerator.generatePost (src/src/utils/Logger.js:167-205).  A text   *)
(* of the source that is fixed (a title template, the header and footer    *)
(* of config.blog.template, the frame of the fallback article) is held by  *)
(* its name; what is filled in is held as the string it is.                *)

\* title.replace(/^#+\s*/, '')
RECURSIVE StripHashes(_)
StripHashes(s) == IF s # <<>> /\ s[1] = "#" THEN StripHashes(Tail(s)) ELSE s
StripHeading(s) ==
    IF s # <<>> /\ s[1] = "#"
    THEN LET rest == StripHashes(s) IN SubSeq(rest, WsRun(rest, 1) + 1, Len(rest))
    ELSE s

\* generateTitle (lines 266-279): the template of the post type, filled
\* with the author
generateTitle(pd) ==
    [t |-> "template",
     v |-> <<IF pd.postType \in {"photo", "status", "shared", "video", "link", "group", "page"}
             THEN pd.postType ELSE "post",
             pd.author.v>>]

\* buildBlogPost (lines 235-264); the tags, the category and the two
\* readings of the clock are left out
buildBlogPost(pd, generatedContent) ==
    LET lines == NonBlank(split(generatedContent))
    IN  [t |-> "object",
         title |-> [prefix |-> "config.blog.titlePrefix",
                    text |-> IF lines = <<>> THEN generateTitle(pd)
                             ELSE Str(StripHeading(lines[1]))],
         content |-> [frame |-> "config.blog.template",
                      body |-> IF lines = <<>> THEN <<>> ELSE trim(JoinLines(Tail(lines)))],
         metadata |-> [sourceAuthor |-> pd.author,
                       sourceDate |-> pd.date,
                       postType |-> pd.postType,
                       importance |-> [t |-> "number", v |-> BlogGenerator_calculateImportance(pd)],
                       fallback |-> Undefined]]

\* generateFallbackPost (lines 339-378); the same fields left out
generateFallbackPost(pd) ==
    [t |-> "object",
     title |-> [prefix |-> "config.blog.titlePrefix", text |-> generateTitle(pd)],
     content |-> [frame |-> "fallback",
                  body |-> pd.content.v],
     metadata |-> [sourceAuthor |-> pd.author,
                   sourceDate |-> pd.date,
                   postType |-> pd.postType,
                   importance |-> Undefined,
                   fallback |-> True]]

\* what the AI request yielded is no answer with a text: the request was
\* rejected, or response.choices[0].message.content (line 191) cannot be
\* read, or it is no string and split (line 237) cannot be called on it
Unusable(answer) ==
    \/ answer = Thrown
    \/ answer.choices = <<>>
    \/ ~IsStr(answer.choices[1].message.content)

\* a plausible slip: the catch of line 199 logs and throws again
generatePostRethrows(pd, answer) ==
    IF Unusable(answer) THEN Thrown
    ELSE buildBlogPost(pd, answer.choices[1].message.content.v)

\* generatePost (lines 167-205), given what the AI request yields
generatePost(pd, answer) ==
    IF Unusable(answer) THEN generateFallbackPost(pd)
    ELSE buildBlogPost(pd, answer.choices[1].message.content.v)

----------------------------------------------------------------------------
(* Inputs.                                                                 *)

RECURSIVE SeqsUpTo(_, _)
\* every sequence over S of length at most n
SeqsUpTo(S, n) ==
    IF n = 0 THEN {<<>>}
    ELSE LET shorter == SeqsUpTo(S, n - 1)
         IN  shorter \cup {Append(q, x) : q \in shorter, x \in S}

RECURSIVE Concat(_)
\* the concatenation of a sequence of strings
Concat(parts) == IF parts = <<>> THEN <<>> ELSE Head(parts) \o Concat(Tail(parts))


\* strings handed to cleanContent
TextChars == {"a", " ", "\n"}
Texts == SeqsUpTo(TextChars, MaxTextLen)

\* subjects: up to MaxSubjectPhrases phrases, one after the other
SubjectPhrases ==
    { (*[Jane]*) <<"J","a","n","e">>, (*[ ]*) <<" ">>, (*[ posted in]*) <<" ","p","o","s","t","e","d"," ","i","n">>, (*[ shared a post]*) <<" ","s","h","a","r","e","d"," ","a"," ","p","o","s","t">>, (*[ shared a video]*) <<" ","s","h","a","r","e","d"," ","a"," ","v","i","d","e","o">>,
      (*[ posted a video]*) <<" ","p","o","s","t","e","d"," ","a"," ","v","i","d","e","o">>, (*[ added a new photo]*) <<" ","a","d","d","e","d"," ","a"," ","n","e","w"," ","p","h","o","t","o">>, (*[ Book Club group]*) <<" ","B","o","o","k"," ","C","l","u","b"," ","g","r","o","u","p">>,
      (*[Jane Doe posted in]*) <<"J","a","n","e"," ","D","o","e"," ","p","o","s","t","e","d"," ","i","n">>, (*[Ann shared a post]*) <<"A","n","n"," ","s","h","a","r","e","d"," ","a"," ","p","o","s","t">>, (*[ Posted on my page]*) <<" ","P","o","s","t","e","d"," ","o","n"," ","m","y"," ","p","a","g","e">> }
Subjects == {Str(Concat(q)) : q \in SeqsUpTo(SubjectPhrases, MaxSubjectPhrases)}

\* the subjects of the emails given to extractPostData
EmailSubjects ==
    { Str((*[Jane Doe posted in Book Club group]*) <<"J","a","n","e"," ","D","o","e"," ","p","o","s","t","e","d"," ","i","n"," ","B","o","o","k"," ","C","l","u","b"," ","g","r","o","u","p">>),
      Str((*[Ann shared a video]*) <<"A","n","n"," ","s","h","a","r","e","d"," ","a"," ","v","i","d","e","o">>),
      Str((*[  posted in]*) <<" "," ","p","o","s","t","e","d"," ","i","n">>),
      Str((*[Weekly digest]*) <<"W","e","e","k","l","y"," ","d","i","g","e","s","t">>),
      Undefined }

\* the nodes of which the HTML bodies are made
Nodes ==
    { Elem("div", "post_message", "", (*[Just finished reading this amazing novel!]*) <<"J","u","s","t"," ","f","i","n","i","s","h","e","d"," ","r","e","a","d","i","n","g"," ","t","h","i","s"," ","a","m","a","z","i","n","g"," ","n","o","v","e","l","!">>),
      Elem("div", "post_message", "", (*[ Nice one \n]*) <<" ","N","i","c","e"," ","o","n","e"," ","\n">>),
      Elem("div", "", "post-content", (*[A  much longer\npost body]*) <<"A"," "," ","m","u","c","h"," ","l","o","n","g","e","r","\n","p","o","s","t"," ","b","o","d","y">>),
      Elem("p", "", "", (*[Jane wrote: Hello there everyone]*) <<"J","a","n","e"," ","w","r","o","t","e",":"," ","H","e","l","l","o"," ","t","h","e","r","e"," ","e","v","e","r","y","o","n","e">>),
      Elem("div", "", "message", (*[Ann wrote: hi]*) <<"A","n","n"," ","w","r","o","t","e",":"," ","h","i">>),
      Elem("span", "post_author", "", (*[ Bob ]*) <<" ","B","o","b"," ">>),
      TextNode((*[Posted by Ann\n]*) <<"P","o","s","t","e","d"," ","b","y"," ","A","n","n","\n">>),
      TextNode((*[This was a very good day\nSee you there\n]*) <<"T","h","i","s"," ","w","a","s"," ","a"," ","v","e","r","y"," ","g","o","o","d"," ","d","a","y","\n","S","e","e"," ","y","o","u"," ","t","h","e","r","e","\n">>),
      Img(Str((*[a.com/cat.jpg]*) <<"a",".","c","o","m","/","c","a","t",".","j","p","g">>), Str((*[cat]*) <<"c","a","t">>)),
      Img(Str((*[facebook.com/tr/1]*) <<"f","a","c","e","b","o","o","k",".","c","o","m","/","t","r","/","1">>), Undefined),
      Anchor(Str((*[a.com/x]*) <<"a",".","c","o","m","/","x">>), (*[ more ]*) <<" ","m","o","r","e"," ">>),
      Anchor(Str((*[facebook.com/help]*) <<"f","a","c","e","b","o","o","k",".","c","o","m","/","h","e","l","p">>), (*[Help]*) <<"H","e","l","p">>) }
HtmlDocs == SeqsUpTo(Nodes, MaxNodes)

\* the nodes of which the bodies of the emails given to extractPostData are made
EmailNodes ==
    { Elem("div", "post_message", "", (*[Just finished reading this amazing novel!]*) <<"J","u","s","t"," ","f","i","n","i","s","h","e","d"," ","r","e","a","d","i","n","g"," ","t","h","i","s"," ","a","m","a","z","i","n","g"," ","n","o","v","e","l","!">>),
      Elem("div", "post_message", "", (*[ Nice one \n]*) <<" ","N","i","c","e"," ","o","n","e"," ","\n">>),
      Elem("span", "post_author", "", (*[ Bob ]*) <<" ","B","o","b"," ">>),
      TextNode((*[Posted by Ann\nThis was a very good day\n]*) <<"P","o","s","t","e","d"," ","b","y"," ","A","n","n","\n","T","h","i","s"," ","w","a","s"," ","a"," ","v","e","r","y"," ","g","o","o","d"," ","d","a","y","\n">>),
      Img(Str((*[a.com/cat.jpg]*) <<"a",".","c","o","m","/","c","a","t",".","j","p","g">>), Str((*[cat]*) <<"c","a","t">>)),
      Anchor(Str((*[a.com/x]*) <<"a",".","c","o","m","/","x">>), (*[ more ]*) <<" ","m","o","r","e"," ">>) }
EmailBodies == {Str(d) : d \in SeqsUpTo(EmailNodes, MaxNodes)} \cup {Undefined}

\* the lines of which the plain-text bodies are made: a line of navigation
\* chrome, a six-character line, a longer line, an unsubscribe footer
Lines == { (*[Reply now]*) <<"R","e","p","l","y"," ","n","o","w">>, (*[Hello!]*) <<"H","e","l","l","o","!">>, (*[Great book]*) <<"G","r","e","a","t"," ","b","o","o","k">>, (*[to unsubscribe]*) <<"t","o"," ","u","n","s","u","b","s","c","r","i","b","e">> }
TextDocs == {<<TextNode(JoinLines(ls))>> : ls \in SeqsUpTo(Lines, MaxLines)}
\* bodies whose lines hold a carriage return (of a character reference), which
\* "." does not match: such a line is post content however short it is
ScanDocs ==
    { <<TextNode((*[a\rb\na\rb\na\rb\na\rb\na\rb\nGreat book]*) <<"a","\r","b","\n","a","\r","b","\n","a","\r","b","\n","a","\r","b","\n","a","\r","b","\n","G","r","e","a","t"," ","b","o","o","k">>)>>,
      <<TextNode((*[a\rb\na\rb\nReply now\nsee facebook.com for more]*) <<"a","\r","b","\n","a","\r","b","\n","R","e","p","l","y"," ","n","o","w","\n","s","e","e"," ","f","a","c","e","b","o","o","k",".","c","o","m"," ","f","o","r"," ","m","o","r","e">>)>>,
      <<TextNode((*[a\rb\n1\r2\n]*) <<"a","\r","b","\n","1","\r","2","\n">>)>> }

\* the documents that matter to the author stages
AuthorDocs ==
    { <<>>,
      <<Elem("span", "post_author", "", (*[ Bob ]*) <<" ","B","o","b"," ">>)>>,
      <<TextNode((*[Posted by Ann\n]*) <<"P","o","s","t","e","d"," ","b","y"," ","A","n","n","\n">>)>>,
      <<TextNode((*[Posted by Ann\n]*) <<"P","o","s","t","e","d"," ","b","y"," ","A","n","n","\n">>), Elem("span", "", "author", (*[]*) <<>>)>>,
      <<TextNode((*[nearby  \t\nFrom: me]*) <<"n","e","a","r","b","y"," "," ","\t","\n","F","r","o","m",":"," ","m","e">>)>> }

\* the nodes of the documents handed to extractImages: a picture, the two
\* kinds of tracking pixel, an img without a source, and a node that is no img
ImageNodes ==
    { Img(Str((*[a.com/cat.jpg]*) <<"a",".","c","o","m","/","c","a","t",".","j","p","g">>), Str((*[cat]*) <<"c","a","t">>)),
      Img(Str((*[facebook.com/tr/1]*) <<"f","a","c","e","b","o","o","k",".","c","o","m","/","t","r","/","1">>), Undefined),
      Img(Str((*[a.com/pixel.gif]*) <<"a",".","c","o","m","/","p","i","x","e","l",".","g","i","f">>), Str(<<>>)),
      Img(Undefined, Str((*[logo]*) <<"l","o","g","o">>)),
      Anchor(Str((*[a.com/x]*) <<"a",".","c","o","m","/","x">>), (*[ more ]*) <<" ","m","o","r","e"," ">>) }
ImageDocs == SeqsUpTo(ImageNodes, MaxMedia)

\* the nodes of the documents handed to extractLinks: a link, a help-center
\* link, an unsubscribe link, an a without a target, and a node that is no a
LinkNodes ==
    { Anchor(Str((*[a.com/x]*) <<"a",".","c","o","m","/","x">>), (*[ more ]*) <<" ","m","o","r","e"," ">>),
      Anchor(Str((*[facebook.com/help/1]*) <<"f","a","c","e","b","o","o","k",".","c","o","m","/","h","e","l","p","/","1">>), (*[Help]*) <<"H","e","l","p">>),
      Anchor(Str((*[a.com/unsubscribe?u=1]*) <<"a",".","c","o","m","/","u","n","s","u","b","s","c","r","i","b","e","?","u","=","1">>), (*[Leave]*) <<"L","e","a","v","e">>),
      Anchor(Undefined, (*[top]*) <<"t","o","p">>),
      Img(Str((*[a.com/cat.jpg]*) <<"a",".","c","o","m","/","c","a","t",".","j","p","g">>), Str((*[cat]*) <<"c","a","t">>)) }
LinkDocs == SeqsUpTo(LinkNodes, MaxMedia)

RawDates == { Str((*[Mon, 15 Jan 2024 10:30:00 +0000]*) <<"M","o","n",","," ","1","5"," ","J","a","n"," ","2","0","2","4"," ","1","0",":","3","0",":","0","0"," ","+","0","0","0","0">>), Str((*[not a date]*) <<"n","o","t"," ","a"," ","d","a","t","e">>), Undefined }
Clock == { (*[2026-03-01T08:00:00.000Z]*) <<"2","0","2","6","-","0","3","-","0","1","T","0","8",":","0","0",":","0","0",".","0","0","0","Z">>, (*[2026-03-01T08:00:01.000Z]*) <<"2","0","2","6","-","0","3","-","0","1","T","0","8",":","0","0",":","0","1",".","0","0","0","Z">> }
Sender == Str((*[notification@facebookmail.com]*) <<"n","o","t","i","f","i","c","a","t","i","o","n","@","f","a","c","e","b","o","o","k","m","a","i","l",".","c","o","m">>)

NoEmail == [subject |-> Undefined, from |-> Undefined, body |-> Undefined, date |-> Undefined]

PostTypes == {"photo", "status", "shared", "video", "link", "group", "page", "post"}
ContentLengths == {100, 101, 300, 301, 500, 501, 2000}
Media(n) == [k \in 1..n |-> [url |-> (*[u]*) <<"u">>, alt |-> <<>>]]
Hrefs(n) == [k \in 1..n |-> [url |-> (*[u]*) <<"u">>, text |-> <<>>]]

\* the records handed to the scorers
ScoredRecord(len, type, nImages, nLinks) ==
    [t |-> "object",
     author |-> Str((*[Jane]*) <<"J","a","n","e">>),
     content |-> Str([k \in 1..len |-> "a"]),
     postType |-> type,
     date |-> Str((*[2024-01-15T10:30:00.000Z]*) <<"2","0","2","4","-","0","1","-","1","5","T","1","0",":","3","0",":","0","0",".","0","0","0","Z">>),
     images |-> Media(nImages),
     links |-> Hrefs(nLinks),
     originalEmail |-> [subject |-> Str((*[Jane]*) <<"J","a","n","e">>), from |-> Sender, date |-> Undefined]]

\* the environment of the blog service: all four settings, one of them
\* missing, one of them empty
Setting == Str((*[x]*) <<"x">>)
FullCredentials == [apiKey |-> Setting, apiSecret |-> Setting, username |-> Setting, blogId |-> Setting]
Credentials ==
    { FullCredentials,
      [apiKey |-> Undefined, apiSecret |-> Setting, username |-> Setting, blogId |-> Setting],
      [apiKey |-> Setting, apiSecret |-> Undefined, username |-> Setting, blogId |-> Setting],
      [apiKey |-> Setting, apiSecret |-> Setting, username |-> Undefined, blogId |-> Setting],
      [apiKey |-> Setting, apiSecret |-> Setting, username |-> Setting, blogId |-> Undefined],
      [apiKey |-> Setting, apiSecret |-> Setting, username |-> Setting, blogId |-> Str(<<>>)] }
\* what the server may do with a request: create the entry and answer with
\* it, create it and answer without a body, answer 200 or 204 without having
\* created anything, refuse, fail, not answer
Served(status, data) == [t |-> "response", status |-> status, data |-> data]
Responses ==
    { Served(201, Str((*[<entry><id>tag:1</id><link rel=\'alternate\' href=\'b.jp/1\'/></entry>]*) <<"<","e","n","t","r","y",">","<","i","d",">","t","a","g",":","1","<","/","i","d",">","<","l","i","n","k"," ","r","e","l","=","\"","a","l","t","e","r","n","a","t","e","\""," ","h","r","e","f","=","\"","b",".","j","p","/","1","\"","/",">","<","/","e","n","t","r","y",">">>)),
      Served(201, Str(<<>>)),
      Served(200, Str((*[<feed></feed>]*) <<"<","f","e","e","d",">","<","/","f","e","e","d",">">>)),
      Served(204, Str(<<>>)),
      Served(401, Str(<<>>)),
      Served(500, Str(<<>>)),
      Served(0, Undefined) }

\* an answer of the AI with this content
Answer(content) == [t |-> "object", choices |-> <<[message |-> [content |-> content]]>>]
\* what the AI request may yield: it is rejected, the answer has no choice,
\* a choice without content, an empty text, a text with a title line
Completions ==
    { Thrown,
      [t |-> "object", choices |-> <<>>],
      Answer(Null),
      Answer(Str(<<>>)),
      Answer(Str((*[# A day out\nJane read a novel.]*) <<"#"," ","A"," ","d","a","y"," ","o","u","t","\n","J","a","n","e"," ","r","e","a","d"," ","a"," ","n","o","v","e","l",".">>)) }

\* the blog post handed to the blog service on its own
ServicePost == generateFallbackPost(ScoredRecord(100, "post", 0, 0))

\* config/config.json: facebook.targetUsers is empty and blog.autoPost is false
ShippedConfig == [autoPost |-> FALSE, targetUsers |-> <<>>]
\* the configurations the automation is run with
Configs ==
    { [autoPost |-> a, targetUsers |-> u] :
        a \in BOOLEAN, u \in {<<>>, <<(*[Jane Doe]*) <<"J","a","n","e"," ","D","o","e">>>>, <<(*[Jane]*) <<"J","a","n","e">>, (*[Bob]*) <<"B","o","b">>>>} }

\* the notifications in the mailbox: a post of Jane Doe, a digest that holds
\* no post, a video that Ann shared
Mailbox ==
    << [subject |-> Str((*[Jane Doe posted in Book Club group]*) <<"J","a","n","e"," ","D","o","e"," ","p","o","s","t","e","d"," ","i","n"," ","B","o","o","k"," ","C","l","u","b"," ","g","r","o","u","p">>), from |-> Sender,
        body |-> Str(<<Elem("div", "post_message", "", (*[Just finished reading this amazing novel!]*) <<"J","u","s","t"," ","f","i","n","i","s","h","e","d"," ","r","e","a","d","i","n","g"," ","t","h","i","s"," ","a","m","a","z","i","n","g"," ","n","o","v","e","l","!">>)>>),
        date |-> Str((*[Mon, 15 Jan 2024 10:30:00 +0000]*) <<"M","o","n",","," ","1","5"," ","J","a","n"," ","2","0","2","4"," ","1","0",":","3","0",":","0","0"," ","+","0","0","0","0">>)],
       [subject |-> Str((*[Weekly digest]*) <<"W","e","e","k","l","y"," ","d","i","g","e","s","t">>), from |-> Sender,
        body |-> Str(<<TextNode((*[Reply now]*) <<"R","e","p","l","y"," ","n","o","w">>)>>),
        date |-> Str((*[Mon, 15 Jan 2024 10:30:00 +0000]*) <<"M","o","n",","," ","1","5"," ","J","a","n"," ","2","0","2","4"," ","1","0",":","3","0",":","0","0"," ","+","0","0","0","0">>)],
       [subject |-> Str((*[Ann shared a video]*) <<"A","n","n"," ","s","h","a","r","e","d"," ","a"," ","v","i","d","e","o">>), from |-> Sender,
        body |-> Str(<<Elem("div", "post_message", "", (*[Just finished reading this amazing novel!]*) <<"J","u","s","t"," ","f","i","n","i","s","h","e","d"," ","r","e","a","d","i","n","g"," ","t","h","i","s"," ","a","m","a","z","i","n","g"," ","n","o","v","e","l","!">>)>>),
        date |-> Str((*[2024-01-15T10:30:00.000Z]*) <<"2","0","2","4","-","0","1","-","1","5","T","1","0",":","3","0",":","0","0",".","0","0","0","Z">>)] >>

\* what parser.extractPostData returns for each email of the mailbox; every
\* one of them has a body that is a string and a date that parses, so that
\* the call reads neither the clock nor the library's answer to a bad body
Extracted ==
    [id \in 1..Len(Mailbox) |-> extractPostData(Mailbox[id], CHOOSE c \in Clock : TRUE, FALSE).ret]

----------------------------------------------------------------------------
(* The state machine: a call is made when no result is pending, and the    *)
(* caller takes the result before the next call.                           *)

\* no call of the parser has been made
NoCall ==
    /\ method = "none"
    /\ email = NoEmail
    /\ text = Undefined
    /\ postData = Null
    /\ ret = Undefined
    /\ previous = Undefined

\* the automation as constructed (index.js:11-18), with the configuration cfg
\* and the environment env of the blog service
Constructed(cfg, env) ==
    /\ startup = "new"
    /\ auth = <<>>
    /\ running = 0
    /\ invocations = 0
    /\ faulted = {}
    /\ credentials = env
    /\ response = Undefined
    /\ requests = <<>>
    /\ isRunning = FALSE
    /\ config = cfg
    /\ pc = "idle"
    /\ emails = <<>>
    /\ current = 0
    /\ parsed = Null
    /\ processed = {}
    /\ log = <<>>
    /\ invocation = "none"
    /\ completion = Undefined
    /\ blogPost = Undefined

Init == NoCall /\ Constructed(ShippedConfig, FullCredentials)

\* parser.extractPostData(email)
CallExtractPostData ==
    /\ method = "none"
    /\ \E subject \in EmailSubjects, body \in EmailBodies, date \in RawDates :
       \* the clock is read only for a date that does not parse, and the
       \* library's answer to a body that is no string matters only for one
       \E now \in (IF NewDate(date) = InvalidDate THEN Clock ELSE {CHOOSE c \in Clock : TRUE}),
          loadThrows \in (IF IsStr(body) THEN {FALSE} ELSE BOOLEAN) :
        LET e == [subject |-> subject, from |-> Sender, body |-> body, date |-> date]
            out == extractPostData(e, now, loadThrows)
        IN  /\ method' = "extractPostData"
            /\ email' = e
            /\ text' = Undefined
            /\ postData' = out.postData
            /\ ret' = out.ret
            /\ previous' = Undefined
            /\ UNCHANGED automationVars
            /\ UNCHANGED serviceVars

\* parser.extractPostData(email) once more, with the email of the call before
CallExtractPostDataAgain ==
    /\ method = "extractPostData"
    /\ previous = Undefined
    /\ \E now \in Clock,
          loadThrows \in (IF IsStr(email.body) THEN {FALSE} ELSE BOOLEAN) :
        LET out == extractPostData(email, now, loadThrows)
        IN  /\ method' = "extractPostData"
            /\ email' = email
            /\ text' = Undefined
            /\ postData' = out.postData
            /\ ret' = out.ret
            /\ previous' = ret
            /\ UNCHANGED automationVars
            /\ UNCHANGED serviceVars

\* parser.extractPostType(subject, $)
CallExtractPostType ==
    /\ method = "none"
    /\ \E subject \in Subjects \cup {Undefined} :
        /\ method' = "extractPostType"
        /\ email' = [NoEmail EXCEPT !.subject = subject]
        /\ text' = Undefined
        /\ postData' = Null
        /\ ret' = Str(extractPostType(subject))
        /\ previous' = Undefined
        /\ UNCHANGED automationVars
            /\ UNCHANGED serviceVars

\* parser.extractAuthor(subject, $)
CallExtractAuthor ==
    /\ method = "none"
    /\ \E subject \in Subjects \cup {Undefined}, doc \in AuthorDocs :
        /\ method' = "extractAuthor"
        /\ email' = [NoEmail EXCEPT !.subject = subject, !.body = Str(doc)]
        /\ text' = Undefined
        /\ postData' = Null
        /\ ret' = extractAuthor(subject, doc)
        /\ previous' = Undefined
        /\ UNCHANGED automationVars
            /\ UNCHANGED serviceVars

\* parser.extractContent($)
CallExtractContent ==
    /\ method = "none"
    /\ \E doc \in HtmlDocs \cup TextDocs \cup ScanDocs :
        /\ method' = "extractContent"
        /\ email' = [NoEmail EXCEPT !.body = Str(doc)]
        /\ text' = Undefined
        /\ postData' = Null
        /\ ret' = extractContent(doc)
        /\ previous' = Undefined
        /\ UNCHANGED automationVars
            /\ UNCHANGED serviceVars

\* parser.extractImages($)
CallExtractImages ==
    /\ method = "none"
    /\ \E doc \in ImageDocs :
        /\ method' = "extractImages"
        /\ email' = [NoEmail EXCEPT !.body = Str(doc)]
        /\ text' = Undefined
        /\ postData' = Null
        /\ ret' = [t |-> "array", v |-> extractImages(doc)]
        /\ previous' = Undefined
        /\ UNCHANGED automationVars
            /\ UNCHANGED serviceVars

\* parser.extractLinks($)
CallExtractLinks ==
    /\ method = "none"
    /\ \E doc \in LinkDocs :
        /\ method' = "extractLinks"
        /\ email' = [NoEmail EXCEPT !.body = Str(doc)]
        /\ text' = Undefined
        /\ postData' = Null
        /\ ret' = [t |-> "array", v |-> extractLinks(doc)]
        /\ previous' = Undefined
        /\ UNCHANGED automationVars
            /\ UNCHANGED serviceVars

\* parser.cleanContent(content)
CallCleanContent ==
    /\ method = "none"
    /\ \E x \in Texts :
        /\ method' = "cleanContent"
        /\ email' = NoEmail
        /\ text' = Str(x)
        /\ postData' = Null
        /\ ret' = Str(cleanContent(x))
        /\ previous' = Undefined
        /\ UNCHANGED automationVars
            /\ UNCHANGED serviceVars

\* blogGenerator.calculateImportance(postData); ret is in half points
CallGeneratorImportance ==
    /\ method = "none"
    /\ \E len \in ContentLengths, type \in PostTypes, nImages \in 0..MaxImages, nLinks \in 0..MaxLinks :
        LET pd == ScoredRecord(len, type, nImages, nLinks)
        IN  /\ method' = "BlogGenerator.calculateImportance"
            /\ email' = NoEmail
            /\ text' = Undefined
            /\ postData' = pd
            /\ ret' = [t |-> "number", v |-> BlogGenerator_calculateImportance(pd)]
            /\ previous' = Undefined
            /\ UNCHANGED automationVars
            /\ UNCHANGED serviceVars

\* parser.calculateImportance(postData); ret is in half points
CallParserImportance ==
    /\ method = "none"
    /\ \E len \in ContentLengths, type \in PostTypes, nImages \in 0..MaxImages, nLinks \in 0..MaxLinks :
        LET pd == ScoredRecord(len, type, nImages, nLinks)
        IN  /\ method' = "FacebookParser.calculateImportance"
            /\ email' = NoEmail
            /\ text' = Undefined
            /\ postData' = pd
            /\ ret' = [t |-> "number", v |-> FacebookParser_calculateImportance(pd)]
            /\ previous' = Undefined
            /\ UNCHANGED automationVars
            /\ UNCHANGED serviceVars

\* hatenaBlogService.authenticate() of a service constructed in the
\* environment env
CallAuthenticate ==
    /\ method = "none"
    /\ \E env \in Credentials, served \in Responses :
        LET out == authenticate(env, served)
        IN  /\ method' = "authenticate"
            /\ credentials' = env
            /\ response' = IF out.requests = <<>> THEN Undefined ELSE served
            /\ requests' = out.requests
            /\ ret' = out.ret
            /\ email' = NoEmail
            /\ text' = Undefined
            /\ postData' = Null
            /\ previous' = Undefined
            /\ UNCHANGED automationVars

\* hatenaBlogService.publishPost(blogPost)
CallPublishPost ==
    /\ method = "none"
    /\ \E env \in Credentials, served \in Responses :
        LET out == publishPost(env, ServicePost, served)
        IN  /\ method' = "publishPost"
            /\ credentials' = env
            /\ response' = IF out.requests = <<>> THEN Undefined ELSE served
            /\ requests' = out.requests
            /\ ret' = out.ret
            /\ email' = NoEmail
            /\ text' = Undefined
            /\ postData' = Null
            /\ previous' = Undefined
            /\ UNCHANGED automationVars

\* hatenaBlogService.saveDraft(blogPost)
CallSaveDraft ==
    /\ method = "none"
    /\ \E env \in Credentials, served \in Responses :
        LET out == saveDraft(env, ServicePost, served)
        IN  /\ method' = "saveDraft"
            /\ credentials' = env
            /\ response' = IF out.requests = <<>> THEN Undefined ELSE served
            /\ requests' = out.requests
            /\ ret' = out.ret
            /\ email' = NoEmail
            /\ text' = Undefined
            /\ postData' = Null
            /\ previous' = Undefined
            /\ UNCHANGED automationVars

\* the caller has taken the result
Return ==
    /\ method # "none"
    /\ method' = "none"
    /\ email' = NoEmail
    /\ text' = Undefined
    /\ postData' = Null
    /\ ret' = Undefined
    /\ previous' = Undefined
    /\ credentials' = FullCredentials
    /\ response' = Undefined
    /\ requests' = <<>>
    /\ UNCHANGED automationVars

Next ==
    \/ CallExtractPostData
    \/ CallExtractPostDataAgain
    \/ CallExtractPostType
    \/ CallExtractAuthor
    \/ CallExtractContent
    \/ CallExtractImages
    \/ CallExtractLinks
    \/ CallCleanContent
    \/ CallGeneratorImportance
    \/ CallParserImportance
    \/ CallAuthenticate
    \/ CallPublishPost
    \/ CallSaveDraft
    \/ Return

Spec == Init /\ [][Next]_vars

----------------------------------------------------------------------------
(* FacebookBlogAutomation (src/src/index.js): a run of processNewEmails,   *)
(* one step for each operation it awaits.  What runs between two awaits    *)
(* belongs to the step of the first.                                       *)

\* a plausible slip: an entry that is the start of the author's name counts
isTargetUserByPrefix(author) ==
    Len(config.targetUsers) = 0 \/ \E k \in 1..Len(config.targetUsers) : IsAt(author, 1, config.targetUsers[k])

\* isTargetUser (index.js:110-113)
isTargetUser(author) ==
    Len(config.targetUsers) = 0 \/ \E k \in 1..Len(config.targetUsers) : config.targetUsers[k] = author

\* a plausible slip: the test for a missing record left out
afterExtractNoAbsentTest(pd) ==
    IF pd # Null /\ ~isTargetUser(pd.author.v) THEN "markAsProcessed" ELSE "generatePost"

\* processEmail, lines 77-93: the operation awaited next, given what
\* extractPostData returned
afterExtract(pd) ==
    IF Falsy(pd) THEN "markAsProcessed"
    ELSE IF ~isTargetUser(pd.author.v) THEN "markAsProcessed"
    ELSE "generatePost"

\* lines 55-68: processEmail is over for emails[k]; the loop takes the next
\* email, and after the last one the run ends and releases isRunning
NextEmail(k) ==
    IF k < Len(emails)
    THEN [pc |-> "extractPostData", current |-> k + 1, isRunning |-> TRUE]
    ELSE [pc |-> "idle", current |-> 0, isRunning |-> FALSE]

\* a plausible slip: no try/catch inside the loop, so that a fault reaches
\* the catch of line 64 and ends the run
afterThrowEndsRun(k) == [pc |-> "idle", current |-> 0, isRunning |-> FALSE]

\* a plausible slip: the email is marked in a finally of processEmail, also
\* when a step before the marking threw
afterThrowMarks(k) == [pc |-> "markAsProcessed", current |-> k, isRunning |-> TRUE]

\* lines 58-60: processEmail threw for emails[k]; the fault is logged
afterThrow(k) == NextEmail(k)

\* line 57: processEmail returned for emails[k]
afterReturn(k) == NextEmail(k)

\* a plausible slip: the test of config.blog.autoPost left out
afterSaveDraftAlwaysPublish == "publishPost"

\* processEmail, lines 98-107: the operation awaited after saveDraft returned
afterSaveDraft == IF config.autoPost THEN "publishPost" ELSE "markAsProcessed"

\* a call that completed: the operation, the email it was made for (0: none),
\* and whether it returned (or threw)
Call(op, id, ok) == [op |-> op, id |-> id, ok |-> ok]

\* what getFacebookNotifications may return: notifications not yet marked as
\* processed, each once, MaxBatch at most
Batches ==
    {q \in SeqsUpTo((1..Len(Mailbox)) \ processed, MaxBatch) :
        \A j, k \in 1..Len(q) : j # k => q[j] # q[k]}

\* a plausible slip: the blog service is authenticated whatever the Gmail
\* authentication did
afterGmailAuthenticateGoesOn(ok) == "blog.authenticate"

\* initialize, lines 25-36: a throw of gmailService.authenticate is caught
\* and false is returned, whereupon start() returns (lines 141-144)
afterGmailAuthenticate(ok) == IF ok THEN "blog.authenticate" ELSE "refused"

\* initialize, lines 29-36, and start, lines 140-147
afterBlogAuthenticate(ok) == IF ok THEN "initialRun" ELSE "refused"

\* a plausible slip: no guard
skipsNever == FALSE

\* processNewEmails, lines 41-44: the invocation returns at once
skips == isRunning

\* a plausible slip: isRunning is reset after the loop and not in a finally
isRunningAfterNoFinally(how) == how = "catch"

\* lines 66-68: isRunning at the end of a run, which ends after the loop
\* ("loop") or in the catch of line 64 ("catch")
isRunningAfter(how) == FALSE

\* start() is called (line 169); it awaits initialize(), which awaits
\* gmailService.authenticate()
Start ==
    /\ startup = "new"
    /\ startup' = "gmail.authenticate"
    /\ UNCHANGED <<auth, running, invocations, faulted, isRunning, config, pc, emails, current,
                   parsed, processed, log, invocation, completion, blogPost>>
    /\ UNCHANGED serviceVars
    /\ UNCHANGED parserVars

\* gmailService.authenticate() (line 25) returns or throws
GmailAuthenticate ==
    /\ startup = "gmail.authenticate"
    /\ \E ok \in BOOLEAN :
        /\ auth' = Append(auth, Call("gmail.authenticate", 0, ok))
        /\ startup' = afterGmailAuthenticate(ok)
    /\ UNCHANGED <<running, invocations, faulted, isRunning, config, pc, emails, current,
                   parsed, processed, log, invocation, completion, blogPost>>
    /\ UNCHANGED serviceVars
    /\ UNCHANGED parserVars

\* hatenaBlogService.authenticate() (line 29) returns or throws
BlogAuthenticate ==
    /\ startup = "blog.authenticate"
    /\ \E served \in Responses :
        LET out == authenticate(credentials, served)
        IN  /\ auth' = Append(auth, Call("blog.authenticate", 0, out.ret # Thrown))
            /\ startup' = afterBlogAuthenticate(out.ret # Thrown)
    /\ UNCHANGED <<running, invocations, faulted, isRunning, config, pc, emails, current,
                   parsed, processed, log, invocation, completion, blogPost>>
    /\ UNCHANGED serviceVars
    /\ UNCHANGED parserVars

\* start, lines 149-152: the run of line 147 is over and the schedule is
\* installed
Schedule ==
    /\ startup = "initialRun"
    /\ invocations = 1
    /\ pc = "idle"
    /\ startup' = "scheduled"
    /\ UNCHANGED <<auth, running, invocations, faulted, isRunning, config, pc, emails, current,
                   parsed, processed, log, invocation, completion, blogPost>>
    /\ UNCHANGED serviceVars
    /\ UNCHANGED parserVars

\* processNewEmails is invoked: by start() (line 147), or by a tick of the
\* schedule (lines 150-152)
Invocable ==
    /\ invocations < MaxInvocations
    /\ \/ startup = "initialRun" /\ invocations = 0
       \/ startup = "scheduled"

\* processNewEmails while a run is in progress (lines 41-44)
ProcessNewEmailsSkipped ==
    /\ Invocable
    /\ skips
    /\ invocations' = invocations + 1
    /\ invocation' = "skipped"
    /\ UNCHANGED <<startup, auth, running, faulted, isRunning, config, pc, emails, current,
                   parsed, processed, log, completion, blogPost>>
    /\ UNCHANGED serviceVars
    /\ UNCHANGED parserVars

\* processNewEmails, up to the await of line 52
ProcessNewEmails ==
    /\ Invocable
    /\ ~skips
    /\ invocations' = invocations + 1
    /\ running' = running + 1
    /\ isRunning' = TRUE
    /\ pc' = "getFacebookNotifications"
    /\ emails' = <<>>
    /\ current' = 0
    /\ parsed' = Null
    /\ log' = <<>>
    /\ invocation' = "run"
    /\ UNCHANGED <<startup, auth, faulted, config, processed, completion, blogPost>>
    /\ UNCHANGED serviceVars
    /\ UNCHANGED parserVars

\* line 52 throws: the catch of line 64 and the finally of line 66
GetFacebookNotificationsThrows ==
    /\ pc = "getFacebookNotifications"
    /\ log' = Append(log, Call("getFacebookNotifications", 0, FALSE))
    /\ pc' = "idle"
    /\ isRunning' = isRunningAfter("catch")
    /\ running' = running - 1
    /\ UNCHANGED <<startup, auth, invocations, faulted, config, emails, current, parsed,
                   processed, invocation, completion, blogPost>>
    /\ UNCHANGED serviceVars
    /\ UNCHANGED parserVars

\* line 52 returns the notifications; the loop starts on the first
GetFacebookNotifications ==
    /\ pc = "getFacebookNotifications"
    /\ \E batch \in Batches :
        /\ emails' = batch
        /\ log' = Append(log, Call("getFacebookNotifications", 0, TRUE))
        /\ pc' = IF batch = <<>> THEN "idle" ELSE "extractPostData"
        /\ current' = IF batch = <<>> THEN 0 ELSE 1
        /\ isRunning' = IF batch = <<>> THEN isRunningAfter("loop") ELSE TRUE
        /\ running' = IF batch = <<>> THEN running - 1 ELSE running
    /\ UNCHANGED <<startup, auth, invocations, faulted, config, parsed, processed, invocation,
                   completion, blogPost>>
    /\ UNCHANGED serviceVars
    /\ UNCHANGED parserVars

\* processEmail is over for the current email: its blogPost is gone, and
\* the loop goes on
Loop(next) ==
    /\ completion' = Undefined
    /\ blogPost' = Undefined
    /\ pc' = next.pc
    /\ current' = next.current
    /\ isRunning' = IF next.pc = "idle" THEN isRunningAfter("loop") ELSE next.isRunning
    /\ running' = IF next.pc = "idle" THEN running - 1 ELSE running

\* processEmail, lines 72-93: extractPostData, which never throws, and the
\* tests on its result
ExtractPostData ==
    /\ pc = "extractPostData"
    /\ parsed' = Extracted[emails[current]]
    /\ pc' = afterExtract(Extracted[emails[current]])
    /\ log' = Append(log, Call("extractPostData", emails[current], TRUE))
    /\ UNCHANGED <<startup, auth, running, invocations, faulted, isRunning, config, emails,
                   current, processed, invocation, completion, blogPost>>
    /\ UNCHANGED serviceVars
    /\ UNCHANGED parserVars

\* blogGenerator.generatePost (line 93)
GeneratePost ==
    /\ pc = "generatePost"
    /\ \E answer \in Completions :
        LET post == generatePost(parsed, answer)
        IN  /\ log' = Append(log, Call("generatePost", emails[current], post # Thrown))
            /\ faulted' = IF post # Thrown THEN faulted
                          ELSE faulted \cup {[id |-> emails[current], op |-> "generatePost"]}
            /\ IF post # Thrown
               THEN /\ completion' = answer
                    /\ blogPost' = post
                    /\ pc' = "saveDraft"
                    /\ UNCHANGED <<current, isRunning, running>>
               ELSE Loop(afterThrow(current))
    /\ UNCHANGED <<startup, auth, invocations, config, emails, parsed, processed, invocation>>
    /\ UNCHANGED serviceVars
    /\ UNCHANGED parserVars

\* saveDraft (line 96): the file is written, or fs.writeFile throws
SaveDraft ==
    /\ pc = "saveDraft"
    /\ \E ok \in BOOLEAN :
        /\ log' = Append(log, Call("saveDraft", emails[current], ok))
        /\ faulted' = IF ok THEN faulted
                      ELSE faulted \cup {[id |-> emails[current], op |-> "saveDraft"]}
        /\ IF ok
           THEN pc' = afterSaveDraft /\ UNCHANGED <<current, isRunning, running, completion, blogPost>>
           ELSE Loop(afterThrow(current))
    /\ UNCHANGED <<startup, auth, invocations, config, emails, parsed, processed, invocation>>
    /\ UNCHANGED serviceVars
    /\ UNCHANGED parserVars

\* hatenaBlogService.publishPost (line 100), reached with autoPost only
PublishPost ==
    /\ pc = "publishPost"
    /\ \E served \in Responses :
        LET out == publishPost(credentials, blogPost, served)
            ok == out.ret # Thrown
        IN  /\ log' = Append(log, Call("publishPost", emails[current], ok))
            /\ faulted' = IF ok THEN faulted
                          ELSE faulted \cup {[id |-> emails[current], op |-> "publishPost"]}
            /\ IF ok
               THEN pc' = "markAsProcessed" /\ UNCHANGED <<current, isRunning, running, completion, blogPost>>
               ELSE Loop(afterThrow(current))
    /\ UNCHANGED <<startup, auth, invocations, config, emails, parsed, processed, invocation>>
    /\ UNCHANGED serviceVars
    /\ UNCHANGED parserVars

\* gmailService.markAsProcessed (lines 79, 86, 107), the last operation of
\* processEmail wherever it is called
MarkAsProcessed ==
    /\ pc = "markAsProcessed"
    /\ \E ok \in BOOLEAN :
        /\ log' = Append(log, Call("markAsProcessed", emails[current], ok))
        /\ processed' = IF ok THEN processed \cup {emails[current]} ELSE processed
        /\ faulted' = IF ok THEN faulted
                      ELSE faulted \cup {[id |-> emails[current], op |-> "markAsProcessed"]}
        /\ Loop(IF ok THEN afterReturn(current) ELSE afterThrow(current))
    /\ UNCHANGED <<startup, auth, invocations, config, emails, parsed, invocation>>
    /\ UNCHANGED serviceVars
    /\ UNCHANGED parserVars

AutomationInit == NoCall /\ \E cfg \in Configs, env \in Credentials : Constructed(cfg, env)

AutomationNext ==
    \/ Start
    \/ GmailAuthenticate
    \/ BlogAuthenticate
    \/ Schedule
    \/ ProcessNewEmails
    \/ ProcessNewEmailsSkipped
    \/ GetFacebookNotifications
    \/ GetFacebookNotificationsThrows
    \/ ExtractPostData
    \/ GeneratePost
    \/ SaveDraft
    \/ PublishPost
    \/ MarkAsProcessed

Automation == AutomationInit /\ [][AutomationNext]_vars

\* the operation a run awaits completes, by returning or by throwing
Completes ==
    \/ GetFacebookNotifications
    \/ GetFacebookNotificationsThrows
    \/ ExtractPostData
    \/ GeneratePost
    \/ SaveDraft
    \/ PublishPost
    \/ MarkAsProcessed

\* the automation when every operation a run awaits completes in the end
AutomationFair == Automation /\ WF_vars(Completes)

----------------------------------------------------------------------------
(* Properties.                                                             *)

\* the object of lines 18-30 was built by the call this state records
Built == method = "extractPostData" /\ postData.t = "object"
\* the call this state records returned a record
Produced == method = "extractPostData" /\ ret.t = "object"
NonEmptyString(x) == x.t = "string" /\ Len(x.v) > 0

\* C1 (absence law): extractPostData returns null or a record whose author
\* and content are both non-empty strings; whenever the author or the
\* content resolves to null or to the empty string, it returns null.
C1_AbsenceLaw ==
    method = "extractPostData" =>
        /\ ret.t \in {"null", "object"}
        /\ ret.t = "object" => NonEmptyString(ret.author) /\ NonEmptyString(ret.content)
        /\ (Built /\ (Falsy(postData.author) \/ Falsy(postData.content))) => ret.t = "null"

\* an author was found and no content, and the outcome is null
C1_Witness ==
    /\ Built
    /\ NonEmptyString(postData.author)
    /\ postData.content.t = "null"
    /\ ret.t = "null"

\* the category tags in the order the claim gives
TypeOrder == <<"photo", "status", "shared", "video", "link", "group", "page">>
\* the place in typePatterns of the entry declared for a tag
EntryFor(tag) ==
    (CHOOSE k \in 1..Len(typePatterns) : typePatterns[k].type = tag)
\* the tags whose pattern the subject satisfies, as places in TypeOrder
TagsMatching(subject) ==
    {k \in 1..Len(TypeOrder) : TestI(typePatterns[EntryFor(TypeOrder[k])].pattern, StringOf(subject))}

\* C2 (first match wins): extractPostType returns the tag of the first pattern
\* that matches, the patterns taken in the order photo, status, shared, video,
\* link, group, page; a subject that satisfies several gets the earliest tag.
C2_FirstMatchWins ==
    /\ method = "extractPostType" =>
          \A k \in TagsMatching(email.subject) :
              (\A j \in TagsMatching(email.subject) : k <= j) => ret.v = TypeOrder[k]
    /\ Built =>
          \A k \in TagsMatching(email.subject) :
              (\A j \in TagsMatching(email.subject) : k <= j) => postData.postType = TypeOrder[k]

\* a subject with "shared a video", which the shared and the video pattern
\* both match, is tagged shared
C2_Witness ==
    /\ method = "extractPostType"
    /\ {3, 4} \subseteq TagsMatching(email.subject)
    /\ \A j \in TagsMatching(email.subject) : j >= 3
    /\ ret.v = "shared"

Categories == {"photo", "status", "shared", "video", "link", "group", "page", "post"}

\* C3 (category is total): the category is always one of the enumerated
\* values, and `post` when no pattern matches; never null or undefined.
C3_CategoryEnumerated ==
    /\ method = "extractPostType" =>
          /\ ret.v \in Categories
          /\ TagsMatching(email.subject) = {} => ret.v = "post"
    /\ Built =>
          /\ postData.postType \in Categories
          /\ TagsMatching(email.subject) = {} => postData.postType = "post"

\* a record was produced for a subject that matches no category pattern
C3_Witness ==
    /\ Produced
    /\ TagsMatching(email.subject) = {}
    /\ ret.postType = "post"

\* the author anchors in the order the claim gives
AnchorOrder ==
    << (*[ posted in]*) <<" ","p","o","s","t","e","d"," ","i","n">>, (*[ shared a post]*) <<" ","s","h","a","r","e","d"," ","a"," ","p","o","s","t">>, (*[ added a new photo]*) <<" ","a","d","d","e","d"," ","a"," ","n","e","w"," ","p","h","o","t","o">>,
       (*[ updated their status]*) <<" ","u","p","d","a","t","e","d"," ","t","h","e","i","r"," ","s","t","a","t","u","s">>, (*[ wrote a new post]*) <<" ","w","r","o","t","e"," ","a"," ","n","e","w"," ","p","o","s","t">> >>
AnchorsMatching(s) == {k \in 1..Len(AnchorOrder) : LazyStarts(s, AnchorOrder[k]) # {}}
\* the places of the document text at which the author phrase matches
PhraseAt(t) == {i \in 1..Len(t) : PhraseCaptureStart(t, i) > 0}

\* C4 (author cascade): the first anchor, in list order, that matches the
\* subject yields its captured prefix, trimmed; only when no anchor matches is
\* the document consulted, first for a post-author element, then for a
\* "Posted by/From/By <name>" phrase; when all three fail the author is null.
C4_AuthorCascade ==
    (method = "extractAuthor" /\ IsStr(email.subject)) =>
        LET s == email.subject.v
            doc == email.body.v
            anchors == AnchorsMatching(s)
            elements == SelectSeq(doc, IsAuthorElement)
            t == DocText(doc)
        IN  /\ anchors # {} => ret = Str(trim(LazyCapture(s, AnchorOrder[Min(anchors)])))
            /\ (anchors = {} /\ Len(elements) > 0) => ret = Str(trim(elements[1].text))
            /\ (anchors = {} /\ Len(elements) = 0 /\ PhraseAt(t) # {}) =>
                  ret = Str(trim(PhraseCapture(t, PhraseCaptureStart(t, Min(PhraseAt(t))))))
            /\ (anchors = {} /\ Len(elements) = 0 /\ PhraseAt(t) = {}) => ret = Null

\* the subject holds " shared a post" before " posted in", the document names
\* an author too, and the author is the prefix of " posted in"
C4_Witness ==
    /\ method = "extractAuthor"
    /\ IsStr(email.subject)
    /\ {1, 2} \subseteq AnchorsMatching(email.subject.v)
    /\ Len(SelectSeq(email.body.v, IsAuthorElement)) > 0
    /\ ret = Str((*[Ann shared a post]*) <<"A","n","n"," ","s","h","a","r","e","d"," ","a"," ","p","o","s","t">>)

\* the selectors that select a node whose stripped text exceeds 10 characters
Accepted(doc) ==
    {k \in 1..Len(selectors) :
        LET elements == SelectSeq(doc, LAMBDA n : Selects(selectors[k], n))
        IN  Len(elements) > 0 /\ Len(SelectorContent(elements)) > 10}

\* C5 (selector cascade): extractContent returns the sanitized, prefix-stripped
\* text of the first node of the first selector, in list order, for which
\* that text is longer than 10 characters; a selector whose text is 10
\* characters or shorter is passed over; the line scan runs only when no
\* selector is accepted.
C5_SelectorCascade ==
    method = "extractContent" =>
        LET doc == email.body.v
            first == SelectSeq(doc, LAMBDA n : Selects(selectors[Min(Accepted(doc))], n))
        IN  /\ Accepted(doc) # {} => ret = Str(cleanContent(SelectorContent(first)))
            /\ Accepted(doc) = {} => ret = fallbackContent(doc)

\* the first selector selects a node whose text is too short, a later one is
\* accepted, and its text is the content
C5_Witness ==
    /\ method = "extractContent"
    /\ LET doc == email.body.v
       IN  /\ Len(SelectSeq(doc, LAMBDA n : Selects(selectors[1], n))) > 0
           /\ Accepted(doc) # {}
           /\ Min(Accepted(doc)) > 1
           /\ ret = Str((*[A much longer post body]*) <<"A"," ","m","u","c","h"," ","l","o","n","g","e","r"," ","p","o","s","t"," ","b","o","d","y">>)

\* the non-blank lines the line scan walks
ScanLines(doc) == NonBlank(split(DocText(doc)))
\* a line that may be absorbed: post content, and no system message
Absorbable(l) == isPostContent(trim(l)) /\ ~isSystemMessage(trim(l))
\* how many lines after line i are absorbed: the longest run of absorbable
\* lines that follows, 4 at most
AbsorbedAfter(ls, i) ==
    Max({m \in 0..4 : i + m <= Len(ls) /\ \A j \in 1..m : Absorbable(ls[i + j])})
\* the concatenation that starts at line i
Candidate(ls, i) == JoinLines([j \in 1..(1 + AbsorbedAfter(ls, i)) |-> trim(ls[i + j - 1])])

\* what the line scan returns is the sanitized candidate of a start line that
\* satisfies isPostContent, and that candidate is longer than 20 characters
C6_Absorption ==
    (method = "extractContent" /\ Accepted(email.body.v) = {}) =>
        LET ls == ScanLines(email.body.v)
        IN  \/ ret = Null
            \/ \E i \in 1..Len(ls) :
                  /\ isPostContent(trim(ls[i]))
                  /\ Len(Candidate(ls, i)) > 20
                  /\ ret = Str(cleanContent(Candidate(ls, i)))

\* a body of 2 boilerplate lines, 3 meaningful lines and an unsubscribe footer
Scenario231(ls) ==
    /\ Len(ls) = 6
    /\ \A i \in {1, 2} : ~isPostContent(trim(ls[i]))
    /\ \A i \in {3, 4, 5} : Absorbable(ls[i])
    /\ Contains(toLowerCase(ls[6]), (*[unsubscribe]*) <<"u","n","s","u","b","s","c","r","i","b","e">>)
Meaningful231(ls) == JoinLines(<<trim(ls[3]), trim(ls[4]), trim(ls[5])>>)

\* C6 as claimed: the absorption rule, and for every 2 + 3 + 1 body the
\* content is the sanitized concatenation of the 3 meaningful lines.
C6_AsClaimed ==
    /\ C6_Absorption
    /\ (method = "extractContent" /\ Accepted(email.body.v) = {}
            /\ Scenario231(ScanLines(email.body.v))) =>
          ret = Str(cleanContent(Meaningful231(ScanLines(email.body.v))))

\* C6 as amended: the absorption rule, and for a 2 + 3 + 1 body whose three
\* meaningful lines, joined by newlines, are longer than 20 characters, the
\* content is their sanitized concatenation.
C6_HeuristicFallback ==
    /\ C6_Absorption
    /\ (method = "extractContent" /\ Accepted(email.body.v) = {}
            /\ Scenario231(ScanLines(email.body.v))
            /\ Len(Meaningful231(ScanLines(email.body.v))) > 20) =>
          ret = Str(cleanContent(Meaningful231(ScanLines(email.body.v))))

\* a 2 + 3 + 1 body was scanned and the three meaningful lines came back
C6_Witness ==
    /\ method = "extractContent"
    /\ Accepted(email.body.v) = {}
    /\ Scenario231(ScanLines(email.body.v))
    /\ ret = Str((*[Great book Hello! Great book]*) <<"G","r","e","a","t"," ","b","o","o","k"," ","H","e","l","l","o","!"," ","G","r","e","a","t"," ","b","o","o","k">>)

\* C7 (no fault escapes): extractPostData completes with a record or null for
\* every input, a missing subject, a body that is no string and a throwing
\* stage included.
C7_NoFaultPropagates ==
    method = "extractPostData" => ret.t \in {"null", "object"}

\* a stage threw (the subject is no string, so subject.match is a TypeError)
\* before the object was built, and null came back
C7_Witness ==
    /\ method = "extractPostData"
    /\ ~IsStr(email.subject)
    /\ IsStr(email.body)
    /\ postData = Null
    /\ ret = Null

\* the record of the example: 10 images, 10 links, 2,000 characters
Example10(pd) == Len(pd.images) = 10 /\ Len(pd.links) = 10 /\ Len(pd.content.v) = 2000
Scored == method \in {"BlogGenerator.calculateImportance", "FacebookParser.calculateImportance"}

\* C8 as claimed: both scores lie in [0, 10] (0..20 half points), and both
\* score the record of the example exactly 10.
C8_AsClaimed ==
    Scored =>
        /\ ret.v >= 0 /\ ret.v <= 20
        /\ Example10(postData) => ret.v = 20

\* C8 as amended: both scores lie in [0, 10]; the generator's score of the
\* record of the example is exactly 10, the parser's is 8 plus its category
\* bonus (2 for photo and video, 1 for shared), so 8, 9 or 10.
C8_ScoreRange ==
    /\ Scored => ret.v >= 0 /\ ret.v <= 20
    /\ (method = "BlogGenerator.calculateImportance" /\ Example10(postData)) => ret.v = 20
    /\ (method = "FacebookParser.calculateImportance" /\ Example10(postData)) =>
          ret.v = 16 + (IF postData.postType \in {"photo", "video"} THEN 4
                        ELSE IF postData.postType = "shared" THEN 2 ELSE 0)

\* the generator scored the record of the example, of the default category
C8_Witness ==
    /\ method = "BlogGenerator.calculateImportance"
    /\ Example10(postData)
    /\ postData.postType = "post"
    /\ ret.v = 20

\* the contribution of each content-length threshold, in points
LengthBuckets == {[over |-> 100, adds |-> 1], [over |-> 300, adds |-> 2], [over |-> 500, adds |-> 3]}
RECURSIVE SumAdds(_)
SumAdds(B) == IF B = {} THEN 0 ELSE LET b == CHOOSE x \in B : TRUE IN b.adds + SumAdds(B \ {b})
\* L: one contribution for each threshold the content length exceeds
LengthPoints(n) == SumAdds({b \in LengthBuckets : n > b.over})

C10_SanitizerIdempotent ==
    method = "cleanContent" => cleanContent(ret.v) = ret.v

\* a text with a white-space run inside and white space at both ends was
\* sanitized
C10_Witness ==
    /\ method = "cleanContent"
    /\ text.v = <<" ", "a", "\n", " ", "a">>
    /\ ret.v = <<"a", " ", "a">>

\* no white space at either end, no two white-space characters in a row, and
\* no white-space character other than the space
Sanitized(s) ==
    /\ s # <<>> => (s[1] \notin WhiteSpace /\ s[Len(s)] \notin WhiteSpace)
    /\ \A i \in 1..(Len(s) - 1) : ~(s[i] \in WhiteSpace /\ s[i + 1] \in WhiteSpace)
    /\ \A i \in 1..Len(s) : s[i] \in WhiteSpace => s[i] = " "

TrackingPixel(src) == Contains(src, (*[facebook.com/tr/]*) <<"f","a","c","e","b","o","o","k",".","c","o","m","/","t","r","/">>) \/ Contains(src, (*[pixel]*) <<"p","i","x","e","l">>)
HasUrl(n) == n.url.t = "string" /\ n.url.v # <<>>
AltOf(n) == IF n.alt.t = "string" THEN n.alt.v ELSE <<>>
\* the img nodes of a document, in document order
ImgNodes(doc) == SelectSeq(doc, LAMBDA n : n.tag = "img")
\* the a nodes of a document, in document order
ANodes(doc) == SelectSeq(doc, LAMBDA n : n.tag = "a")

\* C12 as claimed: an item {url, alt} for every img node but those whose
\* source holds a tracking-pixel marker, in document order.
C12_AsClaimed ==
    method = "extractImages" =>
        LET others == SelectSeq(ImgNodes(email.body.v),
                                LAMBDA n : ~(n.url.t = "string" /\ TrackingPixel(n.url.v)))
        IN  /\ Len(ret.v) = Len(others)
            /\ \A k \in 1..Len(others) : ret.v[k].alt = AltOf(others[k])

\* C12 as amended (media filter): an item {url, alt} for every img node that
\* has a non-empty source without a tracking-pixel marker, in document order,
\* as often as the node occurs and however many there are; no item for an img
\* node without a source or with a marker in it.
C12_MediaFilter ==
    method = "extractImages" =>
        LET others == SelectSeq(ImgNodes(email.body.v),
                                LAMBDA n : HasUrl(n) /\ ~TrackingPixel(n.url.v))
        IN  /\ Len(ret.v) = Len(others)
            /\ \A k \in 1..Len(others) :
                  ret.v[k] = [url |-> others[k].url.v, alt |-> AltOf(others[k])]

\* the same picture twice and a tracking pixel between: both copies are kept
C12_Witness ==
    /\ method = "extractImages"
    /\ Len(ImgNodes(email.body.v)) = 3
    /\ \E k \in 1..3 : TrackingPixel(email.body.v[k].url.v)
    /\ Len(ret.v) = 2
    /\ ret.v[1] = ret.v[2]

\* a target that holds a help-center or an unsubscribe marker
HelpOrUnsubscribe(href) == Contains(href, (*[facebook.com/help]*) <<"f","a","c","e","b","o","o","k",".","c","o","m","/","h","e","l","p">>) \/ Contains(href, (*[unsubscribe]*) <<"u","n","s","u","b","s","c","r","i","b","e">>)

\* C13 as claimed: an item {url, text} for every a node but those whose target
\* holds a help-center or unsubscribe marker, in document order.
C13_AsClaimed ==
    method = "extractLinks" =>
        LET others == SelectSeq(ANodes(email.body.v),
                                LAMBDA n : ~(n.url.t = "string" /\ HelpOrUnsubscribe(n.url.v)))
        IN  /\ Len(ret.v) = Len(others)
            /\ \A k \in 1..Len(others) : ret.v[k].text = trim(others[k].text)

\* C13 as amended (link harvest): an item {url, text} for every a node that
\* has a non-empty target without a help-center or unsubscribe marker, in
\* document order; a target that occurs n times is collected n times; no item
\* for an a node without a target.
C13_LinkHarvest ==
    method = "extractLinks" =>
        LET others == SelectSeq(ANodes(email.body.v),
                                LAMBDA n : HasUrl(n) /\ ~HelpOrUnsubscribe(n.url.v))
        IN  /\ Len(ret.v) = Len(others)
            /\ \A k \in 1..Len(others) :
                  ret.v[k] = [url |-> others[k].url.v, text |-> trim(others[k].text)]

\* the same link twice and an unsubscribe link: both copies are collected
C13_Witness ==
    /\ method = "extractLinks"
    /\ Len(ANodes(email.body.v)) = 3
    /\ \E k \in 1..3 : Contains(email.body.v[k].url.v, (*[unsubscribe]*) <<"u","n","s","u","b","s","c","r","i","b","e">>)
    /\ Len(ret.v) = 2
    /\ ret.v[1] = ret.v[2]

\* YYYY-MM-DDTHH:mm:ss.sssZ
IsISO8601(s) ==
    /\ Len(s) = 24
    /\ s[5] = "-" /\ s[8] = "-" /\ s[11] = "T" /\ s[14] = ":" /\ s[17] = ":"
    /\ s[20] = "." /\ s[24] = "Z"
    /\ \A i \in (1..23) \ {5, 8, 11, 14, 17, 20} : s[i] \in Digit
\* the raw timestamp denotes an instant
Parsable(d) == NewDate(d) # InvalidDate

\* C14 (date fallback): the timestamp of every assembled record is an ISO-8601
\* string: the instant of the raw timestamp when it parses, the time of the
\* call when it does not; an email with an author and a content gets its
\* record whether or not its raw timestamp parses, and no call throws.
C14_DateFallback ==
    /\ Built =>
          /\ postData.date.t = "string"
          /\ IsISO8601(postData.date.v)
          /\ Parsable(email.date) => postData.date.v = NewDate(email.date)
          /\ ~Parsable(email.date) => postData.date.v \in Clock
    /\ (Built /\ ~Parsable(email.date)
            /\ NonEmptyString(postData.author) /\ NonEmptyString(postData.content)) =>
          (ret.t = "object" /\ ret.date.v \in Clock)
    /\ method = "extractPostData" => ret # Thrown

\* a record was produced for an email whose raw timestamp is no date, and it
\* is stamped with the time of the call
C14_Witness ==
    /\ Produced
    /\ email.date = Str((*[not a date]*) <<"n","o","t"," ","a"," ","d","a","t","e">>)
    /\ ret.date.v \in Clock

\* the email of the scenario
Subject15 == Str((*[Jane Doe posted in Book Club group]*) <<"J","a","n","e"," ","D","o","e"," ","p","o","s","t","e","d"," ","i","n"," ","B","o","o","k"," ","C","l","u","b"," ","g","r","o","u","p">>)
Text15 == (*[Just finished reading this amazing novel!]*) <<"J","u","s","t"," ","f","i","n","i","s","h","e","d"," ","r","e","a","d","i","n","g"," ","t","h","i","s"," ","a","m","a","z","i","n","g"," ","n","o","v","e","l","!">>
\* the nodes marked data-testid="post_message", in document order
PostMessageNodes(doc) == SelectSeq(doc, LAMBDA n : n.testid = "post_message")
Outcome15 ==
    /\ ret.t = "object"
    /\ ret.author = Str((*[Jane Doe]*) <<"J","a","n","e"," ","D","o","e">>)
    /\ ret.postType = "group"
    /\ ret.content = Str(Text15)

\* C15 as claimed: the subject of the scenario and a body that contains a node
\* marked post_message with the text of the scenario give the record of the
\* scenario.
C15_AsClaimed ==
    (method = "extractPostData" /\ email.subject = Subject15 /\ IsStr(email.body)
        /\ \E k \in 1..Len(email.body.v) :
              email.body.v[k].testid = "post_message" /\ email.body.v[k].text = Text15)
    => Outcome15

\* C15 as amended (end to end): the subject of the scenario and a body whose
\* first node marked post_message has the text of the scenario give a record
\* with author "Jane Doe", category group and that text as content.
C15_EndToEnd ==
    (method = "extractPostData" /\ email.subject = Subject15 /\ IsStr(email.body)
        /\ Len(PostMessageNodes(email.body.v)) > 0
        /\ PostMessageNodes(email.body.v)[1].text = Text15)
    => Outcome15

\* the email of the scenario was given, its body the marked node alone
C15_Witness ==
    /\ method = "extractPostData"
    /\ email.subject = Subject15
    /\ IsStr(email.body)
    /\ Len(email.body.v) = 1
    /\ email.body.v[1].testid = "post_message"
    /\ Outcome15

\* the body of an email as a document: no nodes when the body is no string
DocOf(e) == IF IsStr(e.body) THEN e.body.v ELSE <<>>
HasAnchor(subject) == IsStr(subject) /\ AnchorsMatching(subject.v) # {}
NoSelectorMatch(doc) ==
    \A k \in 1..Len(selectors) : SelectSeq(doc, LAMBDA n : Selects(selectors[k], n)) = <<>>
\* three lines in a row, none of them boilerplate
RunOfThree(ls) ==
    \E i \in 1..(Len(ls) - 2) : \A j \in 0..2 : isPostContent(trim(ls[i + j]))
\* a start line whose concatenation is long enough for the line scan
ScanFinds(ls) ==
    \E i \in 1..Len(ls) : isPostContent(trim(ls[i])) /\ Len(Candidate(ls, i)) > 20

\* C16 as claimed: no anchor phrase in the subject, no selector match in the
\* body and no run of 3 or more lines that are not boilerplate give null.
C16_AsClaimed ==
    (method = "extractPostData" /\ ~HasAnchor(email.subject)
        /\ NoSelectorMatch(DocOf(email)) /\ ~RunOfThree(ScanLines(DocOf(email))))
    => ret = Null

\* C16 as amended (end-to-end absence): null is returned for every email
\* whose body yields no content (no selector is accepted, and no line that is
\* not boilerplate starts a concatenation longer than 20 characters), and for
\* every email that yields no author (no anchor phrase in the subject, no
\* post-author element and no "Posted by/From/By" phrase in the body).
C16_EndToEndAbsence ==
    /\ (method = "extractPostData" /\ Accepted(DocOf(email)) = {}
            /\ ~ScanFinds(ScanLines(DocOf(email))))
       => ret = Null
    /\ (method = "extractPostData" /\ ~HasAnchor(email.subject)
            /\ SelectSeq(DocOf(email), IsAuthorElement) = <<>>
            /\ PhraseAt(DocText(DocOf(email))) = {})
       => ret = Null

\* the subject has no anchor phrase, the body names an author and has a line
\* that is not boilerplate but too short to be content, and null came back
C16_Witness ==
    /\ Built
    /\ ~HasAnchor(email.subject)
    /\ NonEmptyString(postData.author)
    /\ \E i \in 1..Len(ScanLines(DocOf(email))) : isPostContent(trim(ScanLines(DocOf(email))[i]))
    /\ ~ScanFinds(ScanLines(DocOf(email)))
    /\ ret = Null

\* two outcomes agree on every field but the timestamp
AgreeButDate(a, b) ==
    /\ a.t = b.t
    /\ a.t = "object" =>
          /\ a.author = b.author
          /\ a.content = b.content
          /\ a.postType = b.postType
          /\ a.images = b.images
          /\ a.links = b.links
          /\ a.originalEmail = b.originalEmail

\* C17 (determinism): a second call with the same email returns what the first
\* returned, field for field, but for the timestamp; the timestamps agree too
\* when the raw timestamp parses.
C17_Determinism ==
    (method = "extractPostData" /\ previous # Undefined) =>
        /\ AgreeButDate(previous, ret)
        /\ Parsable(email.date) => previous = ret

\* two calls with an email whose raw timestamp is no date returned records
\* that differ, and only in the timestamp
C17_Witness ==
    /\ method = "extractPostData"
    /\ previous.t = "object"
    /\ ret.t = "object"
    /\ ~Parsable(email.date)
    /\ previous.date # ret.date
    /\ AgreeButDate(previous, ret)

\* the emails for which processEmail was invoked in this run, in the order of
\* invocation: extractPostData is its first call
Invoked ==
    LET first == SelectSeq(log, LAMBDA c : c.op = "extractPostData")
    IN  [k \in 1..Len(first) |-> first[k].id]
\* a call made for this email threw
Faulted(id) == \E k \in 1..Len(log) : log[k].id = id /\ ~log[k].ok
\* the run fetched its notifications
Fetched == Len(log) > 0 /\ log[1].op = "getFacebookNotifications" /\ log[1].ok
\* processEmail is over for the k-th email of the batch
Over(k) == Fetched /\ (pc = "idle" \/ current > k)

\* C19 (batch continuation): a fault in the processing of one email ends the
\* processing of that email only: processEmail is invoked for the emails of
\* the batch in list order, and when the run ends it has been invoked for
\* every one of them, whichever of them faulted.
C19_BatchContinuation ==
    /\ Len(Invoked) <= Len(emails)
    /\ \A k \in 1..Len(Invoked) : Invoked[k] = emails[k]
    /\ (pc \notin {"idle", "getFacebookNotifications"}) =>
          Len(Invoked) = (IF pc = "extractPostData" THEN current - 1 ELSE current)
    /\ (pc = "idle" /\ Fetched) => Invoked = emails

\* the first email of a batch of two faulted, and processEmail was invoked
\* for the second all the same
C19_Witness ==
    /\ pc = "idle"
    /\ Fetched
    /\ Len(emails) = 2
    /\ Faulted(emails[1])
    /\ Invoked = emails

\* extraction yields Absent for this email of the mailbox
Absent(id) == Extracted[id] = Null
\* the calls of this run made for an email, in order
CallsFor(id) ==
    LET made == SelectSeq(log, LAMBDA c : c.id = id)
    IN  [k \in 1..Len(made) |-> made[k].op]

\* C20 (absent follow-up): for an email whose extraction yields Absent,
\* processEmail calls markAsProcessed and nothing else: no generation, no
\* draft, no publication; when that call returns the email is marked.
C20_AbsentFollowUp ==
    /\ (pc \in {"generatePost", "saveDraft", "publishPost"}) => ~Absent(emails[current])
    /\ \A k \in 1..Len(emails) :
          Absent(emails[k]) =>
              /\ \A j \in 1..Len(CallsFor(emails[k])) :
                    CallsFor(emails[k])[j] \in {"extractPostData", "markAsProcessed"}
              /\ Over(k) => CallsFor(emails[k]) = <<"extractPostData", "markAsProcessed">>
              /\ (Over(k) /\ ~Faulted(emails[k])) => emails[k] \in processed

\* the digest, which holds no post, was processed: it is marked, and nothing
\* was generated, saved or published in the run
C20_Witness ==
    /\ pc = "idle"
    /\ Fetched
    /\ \E k \in 1..Len(emails) :
          /\ Absent(emails[k])
          /\ CallsFor(emails[k]) = <<"extractPostData", "markAsProcessed">>
          /\ emails[k] \in processed

\* the record extraction yields for this email of the mailbox (Null: Absent)
RecordOf(id) == Extracted[id]
\* the email yields a record whose author is a target user: the list of
\* target users is empty, or the author is one of its entries
OfTargetUser(id) ==
    /\ RecordOf(id) # Null
    /\ \/ config.targetUsers = <<>>
       \/ \E e \in 1..Len(config.targetUsers) : config.targetUsers[e] = RecordOf(id).author.v
\* the places in the log of the calls op made for this email
Places(op, id) == {j \in 1..Len(log) : log[j].op = op /\ log[j].id = id}

\* C21 (draft before publish): for every email that yields a record of a
\* target user saveDraft is called with the generated post, right after
\* generatePost; publishPost is called only with autoPost on and only after
\* the saveDraft of the same email returned; with autoPost off there is no
\* publishPost at all.
C21_DraftBeforePublish ==
    /\ \A k \in 1..Len(emails) :
          (OfTargetUser(emails[k]) /\ Over(k)) =>
              /\ Len(CallsFor(emails[k])) >= 3
              /\ SubSeq(CallsFor(emails[k]), 1, 3) = <<"extractPostData", "generatePost", "saveDraft">>
    /\ \A j \in 1..Len(log) :
          log[j].op = "publishPost" =>
              /\ config.autoPost
              /\ j > 1
              /\ log[j - 1] = Call("saveDraft", log[j].id, TRUE)
    /\ pc = "publishPost" =>
          /\ config.autoPost
          /\ log[Len(log)] = Call("saveDraft", emails[current], TRUE)
    /\ ~config.autoPost => (pc # "publishPost" /\ \A j \in 1..Len(log) : log[j].op # "publishPost")

\* with autoPost on, the post of Jane Doe was saved as a draft and then
\* published
C21_Witness ==
    /\ config.autoPost
    /\ pc = "idle"
    /\ \E k \in 1..Len(emails) :
          /\ OfTargetUser(emails[k])
          /\ CallsFor(emails[k]) =
                <<"extractPostData", "generatePost", "saveDraft", "publishPost", "markAsProcessed">>

\* the email yields a record whose author is no target user
OfOtherUser(id) == RecordOf(id) # Null /\ ~OfTargetUser(id)

\* C22 (target-user filter): with a non-empty list of target users, an email
\* whose author is not exactly one of the entries is marked as processed and
\* nothing is generated, saved or published for it; with an empty list every
\* email that yields a record goes on to generation.
C22_TargetUserFilter ==
    /\ (pc \in {"generatePost", "saveDraft", "publishPost"}) => OfTargetUser(emails[current])
    /\ \A k \in 1..Len(emails) :
          /\ OfOtherUser(emails[k]) =>
                /\ \A j \in 1..Len(CallsFor(emails[k])) :
                      CallsFor(emails[k])[j] \in {"extractPostData", "markAsProcessed"}
                /\ Over(k) => CallsFor(emails[k]) = <<"extractPostData", "markAsProcessed">>
                /\ (Over(k) /\ ~Faulted(emails[k])) => emails[k] \in processed
          /\ (config.targetUsers = <<>> /\ RecordOf(emails[k]) # Null /\ Over(k)) =>
                Places("generatePost", emails[k]) # {}

\* the list of target users holds "Jane" and "Bob": the post of Jane Doe was
\* marked as processed, and nothing was generated for it
C22_Witness ==
    /\ pc = "idle"
    /\ config.targetUsers # <<>>
    /\ \E k \in 1..Len(emails) :
          /\ OfOtherUser(emails[k])
          /\ RecordOf(emails[k]).author.v = (*[Jane Doe]*) <<"J","a","n","e"," ","D","o","e">>
          /\ CallsFor(emails[k]) = <<"extractPostData", "markAsProcessed">>
          /\ emails[k] \in processed

\* the AI request yielded an answer whose first choice has a text
HasText(answer) ==
    /\ answer.t = "object"
    /\ Len(answer.choices) > 0
    /\ answer.choices[1].message.content.t = "string"

\* C29 (generation never fails the email): generatePost returns a blog post
\* for every record it is given and never throws into processEmail; when the
\* AI request fails or its answer cannot be assembled, the post is the
\* fallback post, marked metadata.fallback = true and made of the record's
\* author, type, date and content only.
C29_GenerationNeverFails ==
    /\ \A j \in 1..Len(log) : log[j].op = "generatePost" => log[j].ok
    /\ (pc \in {"saveDraft", "publishPost"}) =>
          /\ blogPost.t = "object"
          /\ HasText(completion) => blogPost.metadata.fallback.t = "undefined"
          /\ ~HasText(completion) =>
                /\ blogPost.metadata.fallback.t = "boolean"
                /\ blogPost.metadata.fallback.v
                /\ blogPost.metadata.sourceAuthor = parsed.author
                /\ blogPost.metadata.sourceDate = parsed.date
                /\ blogPost.metadata.postType = parsed.postType
                /\ blogPost.title.text = [t |-> "template", v |-> <<parsed.postType, parsed.author.v>>]
                /\ blogPost.content = [frame |-> "fallback", body |-> parsed.content.v]

\* the AI request was rejected, and processEmail goes on to saveDraft with
\* the fallback post
C29_Witness ==
    /\ pc = "saveDraft"
    /\ completion = Thrown
    /\ blogPost.t = "object"
    /\ blogPost.metadata.fallback.t = "boolean"
    /\ blogPost.metadata.fallback.v
    /\ log[Len(log)] = Call("generatePost", emails[current], TRUE)

\* what a run of processNewEmails reads and writes
runVars == <<isRunning, running, pc, emails, current, parsed, processed, log, faulted,
             completion, blogPost>>

\* C23 (mutual exclusion of batches): at most one run of processNewEmails is
\* past the guard at any time, and isRunning says whether one is; an
\* invocation made while a run is in progress leaves isRunning and the whole
\* state of that run as they are: it fetches nothing and processes nothing.
C23_MutualExclusion ==
    /\ [](running <= 1 /\ (isRunning <=> running = 1))
    /\ [][(isRunning /\ invocations' # invocations) =>
              (invocation' = "skipped" /\ UNCHANGED runVars)]_vars

\* a tick of the schedule came while a run was awaiting saveDraft, and was
\* skipped
C23_Witness ==
    /\ startup = "scheduled"
    /\ invocation = "skipped"
    /\ isRunning
    /\ running = 1
    /\ pc = "saveDraft"

\* C24 (guard release): a run of processNewEmails that has ended has set
\* isRunning back to false, however it ended; and when every awaited
\* operation completes, a run in progress is followed by a state in which
\* isRunning is false, so that a new invocation is not skipped.
C24_GuardRelease ==
    /\ [](pc = "idle" => (~isRunning /\ ~skips))
    /\ (isRunning ~> (~isRunning /\ pc = "idle"))

\* a run ended in the catch of line 64, getFacebookNotifications having
\* thrown, and the guard is released
C24_Witness ==
    /\ pc = "idle"
    /\ log = <<Call("getFacebookNotifications", 0, FALSE)>>
    /\ invocation = "run"
    /\ ~isRunning

\* generation, draft saving or publishing threw for this email in this run
FailedBeforeMark(id) ==
    \E j \in 1..Len(log) :
        /\ log[j].id = id
        /\ log[j].op \in {"generatePost", "saveDraft", "publishPost"}
        /\ ~log[j].ok

Initialized ==
    auth = <<Call("gmail.authenticate", 0, TRUE), Call("blog.authenticate", 0, TRUE)>>
\* an authentication of initialize() threw
AuthenticationFailed == \E k \in 1..Len(auth) : ~auth[k].ok

\* C26 (start-up gating): processNewEmails is invoked and the schedule is
\* installed only after initialize() returned true; initialize authenticates
\* Gmail first and the blog service second, and does not attempt the second
\* when the first failed; a failed authentication makes start() return
\* without an invocation of processNewEmails and without a schedule, then and
\* ever after.
C26_StartupGating ==
    /\ (invocations > 0 \/ isRunning \/ startup \in {"initialRun", "scheduled"}) => Initialized
    /\ startup = "scheduled" => (Initialized /\ invocations >= 1)
    /\ Len(auth) <= 2
    /\ Len(auth) >= 1 => auth[1].op = "gmail.authenticate"
    /\ Len(auth) = 2 => (auth[1].ok /\ auth[2].op = "blog.authenticate")
    /\ AuthenticationFailed =>
          /\ startup = "refused"
          /\ invocations = 0
          /\ pc = "idle"
          /\ ~isRunning
          /\ log = <<>>
          /\ processed = {}

\* the Gmail authentication threw: the blog service was not asked, and
\* start() has returned
C26_Witness ==
    /\ startup = "refused"
    /\ auth = <<Call("gmail.authenticate", 0, FALSE)>>
    /\ invocations = 0

\* the entry was created: the server answered 201 Created
Created == response.t = "response" /\ response.status = 201
\* one of the four settings of the blog service is missing or empty
Incomplete(env) ==
    \E f \in {"apiKey", "apiSecret", "username", "blogId"} :
        env[f].t = "undefined" \/ env[f] = Str(<<>>)

\* C30 (blog service outcomes): authenticate throws without a request when
\* one of API key, API secret, username and blog id is missing; publishPost
\* and saveDraft return a result, which says success, only when the server
\* answered 201, and throw for every other status and for a request that
\* failed, so that no success is reported for an entry that was not created.
C30_ServiceOutcomes ==
    /\ (method = "authenticate" /\ Incomplete(credentials)) =>
          (ret = Thrown /\ requests = <<>>)
    /\ (method \in {"publishPost", "saveDraft"}) =>
          /\ ret # Thrown => (Created /\ ret.t = "object" /\ ret.success = True)
          /\ ~Created => ret = Thrown

\* the server answered 200 to the request of publishPost, and publishPost
\* threw
C30_Witness ==
    /\ method = "publishPost"
    /\ ~Incomplete(credentials)
    /\ response.t = "response"
    /\ response.status = 200
    /\ requests = <<Request("POST", "/entry")>>
    /\ ret = Thrown

\* how many of the lines after line i are absorbed, given which lines are
\* absorbable: the longest run of absorbable lines that follows, 4 at most
RunAfter(ok, i) == Max({m \in 0..4 : i + m <= Len(ok) /\ \A j \in 1..m : ok[i + j]})
\* the concatenation that starts at each line
Candidates(ls) ==
    LET ok == [i \in 1..Len(ls) |-> Absorbable(ls[i])]
    IN  [i \in 1..Len(ls) |-> JoinLines([j \in 1..(1 + RunAfter(ok, i)) |-> trim(ls[i + j - 1])])]
\* the start lines the line scan can return from: post content whose
\* concatenation is longer than 20 characters
Qualifying(ls) == {i \in 1..Len(ls) : isPostContent(trim(ls[i])) /\ Len(Candidate(ls, i)) > 20}

\* C27 (fallback start-line selection): the line scan passes over a start line
\* whose concatenation is 20 characters or shorter and goes on with the next
\* line, a line absorbed into the rejected concatenation included; it returns
\* the sanitized concatenation of the smallest start index that is post
\* content and whose concatenation exceeds 20 characters, whether or not
\* that start line is a system message, and null only if there is none.
C27_StartLineSelection ==
    (method = "extractContent" /\ Accepted(email.body.v) = {}) =>
        LET ls == ScanLines(email.body.v)
            cand == Candidates(ls)
            starts == {i \in 1..Len(ls) : isPostContent(trim(ls[i])) /\ Len(cand[i]) > 20}
        IN  IF starts = {} THEN ret = Null
            ELSE ret = Str(cleanContent(cand[Min(starts)]))

\* the first line started a concatenation of 5 lines that was too short, and
\* the content returned starts at the second line, which had been absorbed
C27_Witness ==
    /\ method = "extractContent"
    /\ Accepted(email.body.v) = {}
    /\ ret = Str((*[a b a b a b a b Great book]*) <<"a"," ","b"," ","a"," ","b"," ","a"," ","b"," ","a"," ","b"," ","G","r","e","a","t"," ","b","o","o","k">>)
    /\ LET ls == ScanLines(email.body.v)
       IN  /\ isPostContent(trim(ls[1]))
           /\ AbsorbedAfter(ls, 1) = 4
           /\ Len(Candidate(ls, 1)) <= 20
           /\ Min(Qualifying(ls)) = 2
\* the capture of the first anchor that matches the subject is white space
BlankCapture(subject) ==
    /\ HasAnchor(subject)
    /\ \A j \in 1..Len(LazyCapture(subject.v, AnchorOrder[Min(AnchorsMatching(subject.v))])) :
          LazyCapture(subject.v, AnchorOrder[Min(AnchorsMatching(subject.v))])[j] \in WhiteSpace

\* C28 (no fallback after a subject match): once an anchor matches the
\* subject, extractAuthor returns the trimmed capture whatever the document
\* holds, the empty string when the capture is white space; extractPostData
\* then returns null, even for a body that names an author.
C28_NoFallbackAfterMatch ==
    /\ (method = "extractAuthor" /\ HasAnchor(email.subject)) =>
          /\ ret.t = "string"
          /\ BlankCapture(email.subject) => ret = Str(<<>>)
          /\ ~BlankCapture(email.subject) =>
                /\ Len(ret.v) > 0
                /\ Contains(email.subject.v, ret.v)
    /\ (method = "extractPostData" /\ BlankCapture(email.subject)) =>
          /\ Built => postData.author = Str(<<>>)
          /\ ret = Null

\* the subject is "  posted in", the body has a post-author element and
\* content, the author resolved to the empty string and null came back
C28_Witness ==
    /\ Built
    /\ BlankCapture(email.subject)
    /\ SelectSeq(DocOf(email), IsAuthorElement) # <<>>
    /\ NonEmptyString(postData.content)
    /\ postData.author = Str(<<>>)
    /\ ret = Null
====
